---- MODULE Spec2Model ----
(***************************************************************************)
(* The async parse job runner of the document-processing service            *)
(* (python-backend/app/routes/parse.py), the shared parser's page-limit     *)
(* setting it overrides (app/services/parser.py, app/config.py) and the     *)
(* simulated callback worker (app/routes/process_callback.py).              *)
(*                                                                          *)
(* Scheduling model.  Handlers and runner coroutines run on one event       *)
(* loop: the code between two awaits is one atomic step.  parse_bytes runs  *)
(* in an executor thread for a background job (run_in_executor) and         *)
(* directly on the event loop, blocking it, for a synchronous request.      *)
(* The steps of parse_file are therefore separate actions: they interleave  *)
(* with the event loop's steps, which are the only writers of               *)
(* parser.settings.max_pdf_pages.                                           *)
(***************************************************************************)
EXTENDS Integers, Sequences, FiniteSets, TLC

VARIABLES
    max_pdf_pages,  \* parser.settings.max_pdf_pages, the shared mutable setting
    configured,     \* the value Settings() loaded at start-up (never written)
    jobs,           \* one record per request received, in arrival order
    loop_owner      \* the synchronous request blocking the event loop, or 0

vars == <<max_pdf_pages, configured, jobs, loop_owner>>

(***************************************************************************)
(* The other components of the service are modelled one call at a time,    *)
(* each under a specification of its own: a call of the document chunker   *)
(* (app/services/chunker.py, app/routes/chunk.py), a call of _clean_title, *)
(* and an upload with storage (app/routes/documents.py).  A specification  *)
(* leaves the variables of the other components at rest.                   *)
(***************************************************************************)
VARIABLES
    chunker_call,   \* the chunking call in progress: request, nodes, chunks
    title_call,     \* the raw title given to _clean_title and what it returned
    upload_call,    \* the upload in progress: stores written, response
    parser_call,    \* the parse_file call in progress: engines tried, result
    cleanup_call,   \* a clean-up of extractor output and what its consumer reads
    embedder,       \* the EmbedderService: its cache and the call in progress
    extractors      \* the extractors a DocumentChunker keeps between calls

chunker_vars == <<chunker_call>>
title_vars == <<title_call>>
upload_vars == <<upload_call>>
parser_vars == <<parser_call>>
cleanup_vars == <<cleanup_call>>
embedder_vars == <<embedder>>
extractor_vars == <<extractors>>

\* No call has been made.
AtRest == [pc |-> "rest"]

---------------------------------------------------------------------------
(* Bounds of the model *)

MaxJobs == 2
MaxPagesReq == 2

(* Program constants *)

DefaultMaxPages == 30

None == "<None>"
SinkUrl == "http://sink/callback"
Document == "document_parse"
TextOnly == "document_parse_text_only"
Process == "process_with_callback"
ParseKinds == {Document, TextOnly}

\* The page counts of the uploaded documents: a short one, and one longer
\* than every limit a request or the configuration can set.
DocPages == {1, DefaultMaxPages + 1}

\* What one HTTP POST to the callback URL can do.
PostOutcomes == {"ok", "http_error", "network_error"}


Min(a, b) == IF a <= b THEN a ELSE b

Empty == [k \in {} |-> ""]

\* {**a, **b}
Merge(a, b) ==
    [k \in (DOMAIN a) \cup (DOMAIN b) |-> IF k \in DOMAIN b THEN b[k] ELSE a[k]]

\* Python truthiness of an Optional[str]
Truthy(s) == s # None /\ s # ""

\* s.strip() == ""
IsBlank(s) == s \in {"", " "}

Timestamp == "utcnow-Z"

---------------------------------------------------------------------------
(* Requests *)

\* A parse request as the handler sees it.  /parse/text takes no
\* extract_metadata field.
ParseRequest(kind, url, pages, py, go, meta, empty) ==
    [kind |-> kind, callback_url |-> url, max_pages |-> pages,
     python_job_id |-> py, go_job_id |-> go,
     extract_metadata |-> IF kind = Document THEN meta ELSE TRUE,
     content_empty |-> empty]

\* The requests the model submits.  Every endpoint in both modes with every
\* page limit; every callback request with each shape of the job ids (none
\* given, a blank python_job_id, both given) and of extract_metadata; and
\* every endpoint in both modes with an empty upload.
LimitRequests ==
    {ParseRequest(k, u, n, None, None, TRUE, FALSE) :
        k \in ParseKinds, u \in {None, SinkUrl}, n \in 0..MaxPagesReq}

IdShapes == {<<None, None, TRUE>>, <<" ", "go-1", TRUE>>, <<"py-1", "go-1", FALSE>>}

IdRequests ==
    {ParseRequest(k, SinkUrl, 0, x[1], x[2], x[3], FALSE) :
        k \in ParseKinds, x \in IdShapes}

EmptyRequests ==
    {ParseRequest(k, u, 0, None, None, TRUE, TRUE) :
        k \in ParseKinds, u \in {None, SinkUrl}}

ParseRequests == LimitRequests \cup IdRequests \cup EmptyRequests

ProcessRequests ==
    [kind : {Process},
     callback_url : {"", SinkUrl},
     document_id : {"doc-1"}]

NoResponse == [code |-> 0, body |-> [pending |-> TRUE]]
NoParse == [status |-> "none", method |-> "", page_count |-> <<>>,
            doc_pages |-> 0, error |-> ""]

NewJob(r, j) ==
    [req |-> r,
     python_job_id |-> None,
     pc |-> "new",
     response |-> NoResponse,
     original_max_pages |-> 0,
     limited |-> FALSE,
     in_try |-> FALSE,
     parsed |-> NoParse,
     handler |-> "try",
     posted |-> <<>>,
     received |-> <<>>,
     \* history, for the statements only
     reached |-> <<>>,
     built |-> "none",
     misread |-> FALSE,
     alone |-> TRUE,
     before |-> max_pdf_pages,
     after |-> max_pdf_pages]

Finished(job) == job.pc \in {"done", "rejected", "crashed"}
IsParse(job) == job.req.kind \in ParseKinds
IsAsync(job) == IsParse(job) /\ Truthy(job.req.callback_url)
IsSync(job) == IsParse(job) /\ ~Truthy(job.req.callback_url)
InFlightParse(job) == IsParse(job) /\ ~Finished(job)

\* The history of a request that shared the service with another parse
\* request: `before` and `after` are kept for requests that ran alone.
NotAlone(job) == [job EXCEPT !.alone = FALSE, !.before = 0, !.after = 0]

\* The job list after a request arrived as job `new`: a parse request that
\* arrives while another parse request is in flight makes neither "alone".
Arrive(new) ==
    LET busy == \E i \in DOMAIN jobs : InFlightParse(jobs[i])
        old == [i \in DOMAIN jobs |->
                  IF InFlightParse(new) /\ InFlightParse(jobs[i])
                  THEN NotAlone(jobs[i]) ELSE jobs[i]]
    IN Append(old, IF busy /\ InFlightParse(new) THEN NotAlone(new) ELSE new)

\* The setting as job left it, recorded when the request ran alone.
After(job, value) == IF job.alone THEN value ELSE 0

---------------------------------------------------------------------------
(* Callback envelopes *)

\* base_envelope with the caller's raw python_job_id, not the settled one.
base_envelope_raw_id(job) ==
    LET base == [python_job_id |-> job.req.python_job_id,
                 job_type |-> job.req.kind,
                 timestamp |-> Timestamp]
    IN IF Truthy(job.req.go_job_id)
       THEN Merge(base, [job |-> [id |-> job.req.go_job_id, type |-> job.req.kind],
                         go_job_id |-> job.req.go_job_id])
       ELSE base

\* base_envelope without the "if go_job_id:" test.
base_envelope_always_job(job) ==
    Merge([python_job_id |-> job.python_job_id,
           job_type |-> job.req.kind,
           timestamp |-> Timestamp],
          [job |-> [id |-> job.req.go_job_id, type |-> job.req.kind],
           go_job_id |-> job.req.go_job_id])

base_envelope(job) ==
    LET base == [python_job_id |-> job.python_job_id,
                 job_type |-> job.req.kind,
                 timestamp |-> Timestamp]
    IN IF Truthy(job.req.go_job_id)
       THEN Merge(base, [job |-> [id |-> job.req.go_job_id, type |-> job.req.kind],
                         go_job_id |-> job.req.go_job_id])
       ELSE base

processing_payload(job) ==
    Merge(base_envelope(job),
          [status |-> "processing",
           message |-> IF job.req.kind = Document
                       THEN <<"Parsing started">> ELSE <<"Text parsing started">>])

\* _build_parse_response for /parse/document, the dict literal for /parse/text.
\* Text, tables and figures are payload the statements do not read: a
\* response keeps the page and extraction fields.
_build_parse_response(job) ==
    IF job.req.kind = Document
    THEN [metadata |-> IF job.req.extract_metadata
                       THEN [page_count |-> job.parsed.page_count,
                             extraction_method |-> job.parsed.method]
                       ELSE Empty,
          extraction_method |-> job.parsed.method]
    ELSE [metadata |-> [extraction_method |-> job.parsed.method],
          extraction_method |-> job.parsed.method]

result_payload(job) ==
    Merge(base_envelope(job),
          [status |-> "completed",
           message |-> IF job.req.kind = Document
                       THEN <<"Parsing completed successfully">>
                       ELSE <<"Text parsing completed">>,
           result |-> [parse_response |-> _build_parse_response(job)],
           timestamp |-> Timestamp])

\* failure_payload without str(e) in the message.
failure_payload_no_detail(job, e) ==
    Merge(base_envelope(job),
          [status |-> "failed",
           message |-> IF job.req.kind = Document
                       THEN <<"Parsing failed">> ELSE <<"Text parsing failed">>,
           timestamp |-> Timestamp])

failure_payload(job, e) ==
    Merge(base_envelope(job),
          [status |-> "failed",
           message |-> IF job.req.kind = Document
                       THEN <<"Parsing failed: ", e>>
                       ELSE <<"Text parsing failed: ", e>>,
           timestamp |-> Timestamp])

\* _post_json without its try/except: every failed POST raises.
_post_json_unguarded(outcome) ==
    [returned |-> outcome = "ok", raised |-> outcome # "ok"]

\* _post_json catching only the HTTP status error: a network error raises.
_post_json_reraise(outcome) ==
    [returned |-> outcome = "ok", raised |-> outcome = "network_error"]

\* _post_json: what the caller gets back from one POST.
_post_json(outcome) == [returned |-> outcome = "ok", raised |-> FALSE]

\* Whether the callback sink saw the request body.
Reached(outcome) == outcome \in {"ok", "http_error"}

---------------------------------------------------------------------------
Init ==
    /\ configured = DefaultMaxPages
    /\ max_pdf_pages = configured
    /\ jobs = <<>>
    /\ loop_owner = 0
    /\ chunker_call = AtRest
    /\ title_call = AtRest
    /\ upload_call = AtRest
    /\ parser_call = AtRest
    /\ cleanup_call = AtRest
    /\ embedder = AtRest
    /\ extractors = AtRest

\* The parse endpoints have received no request.
ParseAtRest ==
    /\ configured = DefaultMaxPages
    /\ max_pdf_pages = configured
    /\ jobs = <<>>
    /\ loop_owner = 0

---------------------------------------------------------------------------
(* The endpoints /parse/document and /parse/text *)

\* The empty-upload test placed after the callback_url branch.
RejectsUpload_sync_only(r) == r.content_empty /\ ~Truthy(r.callback_url)

\* "if not content: raise HTTPException(400)": checked before callback_url.
RejectsUpload(r) == r.content_empty

\* The handler rejects the upload with 400; no job is created.
RejectEmpty(r) ==
    /\ RejectsUpload(r)
    /\ jobs' = Arrive([NewJob(r, Len(jobs) + 1) EXCEPT
                         !.pc = "rejected",
                         !.response = [code |-> 400,
                                       body |-> [detail |-> "Empty file uploaded"]]])
    /\ UNCHANGED <<max_pdf_pages, configured, loop_owner>>

\* callback_url given: the handler settles python_job_id, adds the background
\* task and returns the acknowledgement, which the framework has yet to send.
AcceptAsync(r) ==
    /\ ~RejectsUpload(r)
    /\ Truthy(r.callback_url)
    /\ LET j == Len(jobs) + 1
           id == IF ~Truthy(r.python_job_id) \/ IsBlank(r.python_job_id)
                 THEN "uuid-" \o ToString(j) ELSE r.python_job_id
       IN jobs' = Arrive([NewJob(r, j) EXCEPT !.python_job_id = id, !.pc = "queued"])
    /\ UNCHANGED <<max_pdf_pages, configured, loop_owner>>

\* No callback_url: the handler overrides the page limit and parses in line,
\* on the event loop, which it blocks until SyncFinish.
BeginSync(r) ==
    /\ ~RejectsUpload(r)
    /\ ~Truthy(r.callback_url)
    /\ LET j == Len(jobs) + 1
       IN /\ jobs' = Arrive([NewJob(r, j) EXCEPT
                               !.original_max_pages = max_pdf_pages,
                               !.pc = "parse_check"])
          /\ loop_owner' = j
    /\ max_pdf_pages' = IF r.max_pages > 0 THEN r.max_pages ELSE max_pdf_pages
    /\ UNCHANGED configured

parse_endpoint(r) ==
    /\ loop_owner = 0
    /\ Len(jobs) < MaxJobs
    /\ \/ RejectEmpty(r)
       \/ AcceptAsync(r)
       \/ BeginSync(r)

\* The framework sends the handler's return value to the caller; background
\* tasks run after the response is sent.
SendResponse(j) ==
    /\ loop_owner = 0
    /\ jobs[j].pc = "queued"
    /\ jobs' = [jobs EXCEPT
                  ![j].pc = "accepted",
                  ![j].response =
                      [code |-> 200,
                       body |-> IF IsParse(jobs[j])
                                THEN [python_job_id |-> jobs[j].python_job_id,
                                      status |-> "accepted"]
                                ELSE [job_id |-> jobs[j].python_job_id,
                                      status |-> "accepted"]]]
    /\ UNCHANGED <<max_pdf_pages, configured, loop_owner>>

\* The task started from the handler, before the response is sent.
BackgroundTaskRunnable_eager(job) == job.pc \in {"queued", "accepted"}

\* background_tasks.add_task: the task may start once the response is sent.
BackgroundTaskRunnable(job) == job.pc = "accepted"

---------------------------------------------------------------------------
(* _run_parse_and_post_callbacks / _run_text_parse_and_post_callbacks *)

\* Up to the first await: build the processing envelope and POST it.
RunnerStart(j) ==
    /\ loop_owner = 0
    /\ IsAsync(jobs[j])
    /\ BackgroundTaskRunnable(jobs[j])
    /\ jobs' = [jobs EXCEPT
                  ![j].pc = "post_processing",
                  ![j].posted = Append(@, processing_payload(jobs[j]))]
    /\ UNCHANGED <<max_pdf_pages, configured, loop_owner>>

\* The restore at the end of the try body instead of in a finally clause.
FinallyRestore_on_success(job) ==
    IF job.parsed.status = "ok" /\ job.built # "raised"
    THEN job.original_max_pages ELSE max_pdf_pages

\* "finally: parser.settings.max_pdf_pages = original_max_pages"
FinallyRestore(job) == job.original_max_pages

\* The processing POST is over: save the page limit, override it when the
\* request set max_pages, and hand parse_bytes to the executor.
RunnerParseBegin(j) ==
    /\ loop_owner = 0
    /\ IsAsync(jobs[j])
    /\ jobs[j].pc = "post_processing"
    /\ \E outcome \in PostOutcomes :
         LET job == jobs[j]
             seen == IF Reached(outcome)
                     THEN Append(job.received, job.posted[Len(job.posted)])
                     ELSE job.received
         IN IF _post_json(outcome).raised
            THEN /\ jobs' = [jobs EXCEPT ![j].received = seen,
                                         ![j].reached = Append(@, Reached(outcome)),
                                         ![j].pc = "crashed",
                                         ![j].after = After(job, max_pdf_pages)]
                 /\ UNCHANGED max_pdf_pages
            ELSE /\ jobs' = [jobs EXCEPT ![j].received = seen,
                                         ![j].reached = Append(@, Reached(outcome)),
                                         ![j].original_max_pages = max_pdf_pages,
                                         ![j].pc = "parse_check"]
                 /\ max_pdf_pages' = IF job.req.max_pages > 0
                                     THEN job.req.max_pages ELSE max_pdf_pages
    /\ UNCHANGED <<configured, loop_owner>>

---------------------------------------------------------------------------
(* DocumentParser.parse_file, as called through parse_bytes *)

\* A background job parses in an executor thread; a synchronous request
\* parses on the event loop it is blocking.
Parsing(j, at) ==
    /\ IsParse(jobs[j])
    /\ jobs[j].pc = at
    /\ IsSync(jobs[j]) => loop_owner = j

\* len(pages) if pages else None
PageCount(n) == IF n > 0 THEN <<n>> ELSE <<>>

\* The page limit the request asked for: its max_pages, or the configured
\* default when it passed 0.
OwnLimit(job) == IF job.req.max_pages > 0 THEN job.req.max_pages ELSE configured

\* History: whether the parse of job has read a page limit that is not its own.
Misread(job) == job.misread \/ max_pdf_pages # OwnLimit(job)

\* "if self.settings.max_pdf_pages > 0": the first read of the setting.
ParseCheck(j) ==
    /\ Parsing(j, "parse_check")
    /\ jobs' = [jobs EXCEPT
                  ![j].limited = max_pdf_pages > 0,
                  ![j].misread = Misread(jobs[j]),
                  ![j].pc = "parse_convert"]
    /\ UNCHANGED <<max_pdf_pages, configured, loop_owner>>

\* The pages the primary engine converts: page_range = (1, max_pdf_pages)
\* with the setting read again, or the whole document.
ConvertedPages(limited, total) ==
    IF limited THEN Min(total, max_pdf_pages) ELSE total

\* converter.convert(...): SUCCESS with a document, another status, or an
\* exception; the last two fall back to the secondary engine.
ParseConvert(j) ==
    /\ Parsing(j, "parse_convert")
    /\ \E status \in {"SUCCESS", "FAILURE", "raise"}, total \in DocPages :
         LET job == jobs[j]
             reads == IF job.limited THEN Misread(job) ELSE job.misread
         IN IF status = "SUCCESS"
            THEN jobs' = [jobs EXCEPT
                            ![j].misread = reads,
                            ![j].parsed =
                                [status |-> "ok", method |-> "docling",
                                 page_count |-> PageCount(ConvertedPages(job.limited, total)),
                                 doc_pages |-> total, error |-> ""],
                            ![j].pc = "parse_finished"]
            ELSE jobs' = [jobs EXCEPT
                            ![j].misread = reads,
                            ![j].in_try = status = "FAILURE",
                            ![j].pc = "parse_fallback"]
    /\ UNCHANGED <<max_pdf_pages, configured, loop_owner>>

\* _parse_with_pymupdf: page_count = min(total_pages, max_pages) if
\* max_pages > 0 else total_pages, with the setting read a third time.
FallbackPages(total) ==
    IF max_pdf_pages > 0 THEN Min(total, max_pdf_pages) ELSE total

\* The secondary engine: fitz.open raises, or the pages are read.  After a
\* status other than SUCCESS it is called inside the try block, so that its
\* exception is caught by "except Exception" and it is called once more;
\* an exception of the call in the except clause leaves parse_file.
ParseFallback(j) ==
    /\ Parsing(j, "parse_fallback")
    /\ \E opened \in BOOLEAN, total \in DocPages :
         IF opened
         THEN jobs' = [jobs EXCEPT
                         ![j].misread = Misread(jobs[j]),
                         ![j].in_try = FALSE,
                         ![j].parsed =
                             [status |-> "ok", method |-> "pymupdf",
                              page_count |-> <<FallbackPages(total)>>,
                              doc_pages |-> total, error |-> ""],
                         ![j].pc = "parse_finished"]
         ELSE IF jobs[j].in_try
         THEN jobs' = [jobs EXCEPT ![j].in_try = FALSE]
         ELSE jobs' = [jobs EXCEPT
                         ![j].parsed = [NoParse EXCEPT !.status = "error",
                                                       !.error = "cannot open document"],
                         ![j].pc = "parse_finished"]
    /\ UNCHANGED <<max_pdf_pages, configured, loop_owner>>

---------------------------------------------------------------------------
(* The runner after the parse *)

\* Building the result (ParseResponse validation and its JSON round trip)
\* may raise for /parse/document; /parse/text builds a plain dict.
BuildOutcomes(job) == IF job.req.kind = Document THEN BOOLEAN ELSE {TRUE}

\* The final envelope: completed when the parse and the build raised
\* nothing, failed with str(e) otherwise ("except Exception as e").
FinalPayload(job, built) ==
    IF job.parsed.status = "ok" /\ built
    THEN result_payload(job)
    ELSE failure_payload(job, IF job.parsed.status = "ok"
                              THEN "cannot build response" ELSE job.parsed.error)

\* The executor future is done: build the final envelope and POST it.
RunnerFinish(j) ==
    /\ loop_owner = 0
    /\ IsAsync(jobs[j])
    /\ jobs[j].pc = "parse_finished"
    /\ \E built \in BuildOutcomes(jobs[j]) :
         LET final == FinalPayload(jobs[j], built)
         IN jobs' = [jobs EXCEPT
                       ![j].built = IF jobs[j].parsed.status # "ok" THEN "none"
                                    ELSE IF built THEN "ok" ELSE "raised",
                       ![j].handler = IF final.status = "completed"
                                      THEN "try" ELSE "except",
                       ![j].posted = Append(@, final),
                       ![j].pc = "post_final"]
    /\ UNCHANGED <<max_pdf_pages, configured, loop_owner>>

\* The final POST is over.  An exception out of the try body is handled by
\* the except clause, which posts a failed envelope; one out of the except
\* clause leaves the runner.  The finally clause restores the page limit.
RunnerExit(j) ==
    /\ loop_owner = 0
    /\ IsAsync(jobs[j])
    /\ jobs[j].pc = "post_final"
    /\ \E outcome \in PostOutcomes :
         LET job == jobs[j]
             seen == IF Reached(outcome)
                     THEN Append(job.received, job.posted[Len(job.posted)])
                     ELSE job.received
             raised == _post_json(outcome).raised
         IN IF raised /\ job.handler = "try"
            THEN /\ jobs' = [jobs EXCEPT
                               ![j].received = seen,
                               ![j].reached = Append(@, Reached(outcome)),
                               ![j].handler = "except",
                               ![j].posted =
                                   Append(@, failure_payload(job, "callback failed"))]
                 /\ UNCHANGED max_pdf_pages
            ELSE /\ max_pdf_pages' = FinallyRestore(job)
                 /\ jobs' = [jobs EXCEPT
                               ![j].received = seen,
                               ![j].reached = Append(@, Reached(outcome)),
                               ![j].pc = IF raised THEN "crashed" ELSE "done",
                               ![j].after = After(job, FinallyRestore(job))]
    /\ UNCHANGED <<configured, loop_owner>>

\* The synchronous request returns the parse response, or a 500 carrying
\* the exception; its finally clause restores the page limit.
SyncFinish(j) ==
    /\ IsSync(jobs[j])
    /\ loop_owner = j
    /\ jobs[j].pc = "parse_finished"
    /\ \E built \in BuildOutcomes(jobs[j]) :
         LET job == jobs[j]
             failed == IF job.req.kind = Document
                       THEN "Failed to parse document: " ELSE "Failed to parse text: "
             resp == IF job.parsed.status = "ok" /\ built
                     THEN [code |-> 200, body |-> _build_parse_response(job)]
                     ELSE [code |-> 500,
                           body |-> [detail |->
                               <<failed, IF job.parsed.status = "ok"
                                         THEN "cannot build response"
                                         ELSE job.parsed.error>>]]
         IN jobs' = [jobs EXCEPT
                       ![j].built = IF job.parsed.status # "ok" THEN "none"
                                    ELSE IF built THEN "ok" ELSE "raised",
                       ![j].response = resp,
                       ![j].pc = "done",
                       ![j].after = After(job, FinallyRestore(job))]
    /\ max_pdf_pages' = FinallyRestore(jobs[j])
    /\ loop_owner' = 0
    /\ UNCHANGED configured

---------------------------------------------------------------------------
(* /process-with-callback *)

process_with_callback(p) ==
    /\ loop_owner = 0
    /\ Len(jobs) < MaxJobs
    /\ LET j == Len(jobs) + 1
       IN IF ~Truthy(p.callback_url)
          THEN jobs' = Arrive([NewJob(p, j) EXCEPT
                                 !.pc = "rejected",
                                 !.response =
                                     [code |-> 400,
                                      body |-> [detail |-> "callback_url is required"]]])
          ELSE jobs' = Arrive([NewJob(p, j) EXCEPT
                                 !.python_job_id = "uuid-" \o ToString(j),
                                 !.pc = "queued"])
    /\ UNCHANGED <<max_pdf_pages, configured, loop_owner>>

\* The simulated work, then one requests.post; RequestException is logged.
\* It runs in a worker thread, so it does not need the event loop.
do_work_and_callback(j) ==
    /\ jobs[j].req.kind = Process
    /\ BackgroundTaskRunnable(jobs[j])
    /\ \E outcome \in PostOutcomes :
         LET job == jobs[j]
             payload == [document_id |-> job.req.document_id,
                         python_job_id |-> job.python_job_id,
                         status |-> "completed",
                         message |-> <<"Processing finished (simulated)">>,
                         job |-> None,
                         chunks |-> <<>>,
                         metadata |-> Empty]
         IN jobs' = [jobs EXCEPT
                       ![j].posted = Append(@, payload),
                       ![j].received = IF Reached(outcome) THEN Append(@, payload) ELSE @,
                       ![j].reached = Append(@, Reached(outcome)),
                       ![j].pc = "done"]
    /\ UNCHANGED <<max_pdf_pages, configured, loop_owner>>

---------------------------------------------------------------------------
Next ==
    \/ \E r \in ParseRequests : parse_endpoint(r)
         /\ UNCHANGED <<chunker_vars, title_vars, upload_vars, parser_vars, cleanup_vars, embedder_vars, extractor_vars>>
    \/ \E p \in ProcessRequests : process_with_callback(p)
         /\ UNCHANGED <<chunker_vars, title_vars, upload_vars, parser_vars, cleanup_vars, embedder_vars, extractor_vars>>
    \/ \E j \in DOMAIN jobs : SendResponse(j)
         /\ UNCHANGED <<chunker_vars, title_vars, upload_vars, parser_vars, cleanup_vars, embedder_vars, extractor_vars>>
    \/ \E j \in DOMAIN jobs : RunnerStart(j)
         /\ UNCHANGED <<chunker_vars, title_vars, upload_vars, parser_vars, cleanup_vars, embedder_vars, extractor_vars>>
    \/ \E j \in DOMAIN jobs : RunnerParseBegin(j)
         /\ UNCHANGED <<chunker_vars, title_vars, upload_vars, parser_vars, cleanup_vars, embedder_vars, extractor_vars>>
    \/ \E j \in DOMAIN jobs : ParseCheck(j)
         /\ UNCHANGED <<chunker_vars, title_vars, upload_vars, parser_vars, cleanup_vars, embedder_vars, extractor_vars>>
    \/ \E j \in DOMAIN jobs : ParseConvert(j)
         /\ UNCHANGED <<chunker_vars, title_vars, upload_vars, parser_vars, cleanup_vars, embedder_vars, extractor_vars>>
    \/ \E j \in DOMAIN jobs : ParseFallback(j)
         /\ UNCHANGED <<chunker_vars, title_vars, upload_vars, parser_vars, cleanup_vars, embedder_vars, extractor_vars>>
    \/ \E j \in DOMAIN jobs : RunnerFinish(j)
         /\ UNCHANGED <<chunker_vars, title_vars, upload_vars, parser_vars, cleanup_vars, embedder_vars, extractor_vars>>
    \/ \E j \in DOMAIN jobs : RunnerExit(j)
         /\ UNCHANGED <<chunker_vars, title_vars, upload_vars, parser_vars, cleanup_vars, embedder_vars, extractor_vars>>
    \/ \E j \in DOMAIN jobs : SyncFinish(j)
         /\ UNCHANGED <<chunker_vars, title_vars, upload_vars, parser_vars, cleanup_vars, embedder_vars, extractor_vars>>
    \/ \E j \in DOMAIN jobs : do_work_and_callback(j)
         /\ UNCHANGED <<chunker_vars, title_vars, upload_vars, parser_vars, cleanup_vars, embedder_vars, extractor_vars>>

Spec == Init /\ [][Next]_<<vars, chunker_vars, title_vars, upload_vars, parser_vars, cleanup_vars, embedder_vars, extractor_vars>>

---------------------------------------------------------------------------
(* Statements about the async parse job runner *)

\* A step of request j.
JobStep(j) ==
    \/ SendResponse(j)
    \/ RunnerStart(j)
    \/ RunnerParseBegin(j)
    \/ ParseCheck(j)
    \/ ParseConvert(j)
    \/ ParseFallback(j)
    \/ RunnerFinish(j)
    \/ RunnerExit(j)
    \/ SyncFinish(j)
    \/ do_work_and_callback(j)

AsyncJobs == {j \in DOMAIN jobs : IsAsync(jobs[j]) /\ jobs[j].pc # "rejected"}
ParseJobs == {j \in DOMAIN jobs : IsParse(jobs[j])}

StatusesOf(envelopes) == [i \in DOMAIN envelopes |-> envelopes[i].status]
Terminal == {"completed", "failed"}

\* The acknowledgement the caller received for job.
Acked(job) ==
    job.response = [code |-> 200,
                    body |-> [python_job_id |-> job.python_job_id,
                              status |-> "accepted"]]

\* The envelopes of `posted` whose POST reached the sink, in order.
RECURSIVE Delivered(_, _)
Delivered(posted, reached) ==
    IF posted = <<>> \/ reached = <<>> THEN <<>>
    ELSE IF Head(reached)
         THEN <<Head(posted)>> \o Delivered(Tail(posted), Tail(reached))
         ELSE Delivered(Tail(posted), Tail(reached))

\* C1: the statuses a background parse job reports only move forward: the
\* acknowledgement first, then one processing envelope, then exactly one
\* terminal envelope (completed or failed); processing is never posted twice
\* or after the terminal envelope, nothing follows the terminal envelope,
\* and a runner that is over has posted both.
C1_StatusesMoveForward ==
    \A j \in AsyncJobs :
      LET job == jobs[j]
          st == StatusesOf(job.posted)
      IN /\ Len(st) <= 2
         /\ Len(st) >= 1 => st[1] = "processing" /\ Acked(job)
         /\ Len(st) = 2 => st[2] \in Terminal
         /\ job.pc \in {"queued", "accepted"} => st = <<>>
         /\ job.pc \in {"post_processing", "parse_check", "parse_convert",
                        "parse_fallback", "parse_finished"} => Len(st) = 1
         /\ job.pc \in {"post_final", "done"} => Len(st) = 2
         /\ job.pc # "crashed"

C1_Witness ==
    \E j \in AsyncJobs :
      /\ jobs[j].pc = "done"
      /\ StatusesOf(jobs[j].posted) = <<"processing", "failed">>

\* C2 as stated: once a background parse job is over, the sink has received
\* exactly one processing envelope followed by exactly one terminal
\* envelope, both with the acknowledged python_job_id.
C2_SinkReceivesExactlyOneOfEach ==
    \A j \in AsyncJobs :
      jobs[j].pc = "done" =>
        /\ Len(jobs[j].received) = 2
        /\ jobs[j].received[1].status = "processing"
        /\ jobs[j].received[2].status \in Terminal
        /\ \A i \in 1..2 :
             jobs[j].received[i].python_job_id = jobs[j].response.body.python_job_id

\* C2 amended: the sink receives the envelopes whose POST reached it, once
\* each and in the order posted: at most one processing envelope and at most
\* one terminal envelope, the processing one first, each with the
\* acknowledged python_job_id; when both POSTs reached it, exactly one of
\* each.
C2_SinkReceivesAtMostOneOfEach ==
    \A j \in AsyncJobs :
      LET job == jobs[j]
          got == StatusesOf(job.received)
      IN /\ job.received = Delivered(job.posted, job.reached)
         /\ \/ got = <<>>
            \/ got = <<"processing">>
            \/ Len(got) = 1 /\ got[1] \in Terminal
            \/ Len(got) = 2 /\ got[1] = "processing" /\ got[2] \in Terminal
         /\ \A i \in DOMAIN job.received :
              /\ Acked(job)
              /\ job.received[i].python_job_id = job.response.body.python_job_id
         /\ (job.pc = "done" /\ job.reached = <<TRUE, TRUE>>) =>
              /\ Len(got) = 2
              /\ got[1] = "processing"
              /\ got[2] \in Terminal

C2_Witness ==
    \E j \in AsyncJobs :
      /\ jobs[j].pc = "done"
      /\ jobs[j].req.python_job_id = None
      /\ StatusesOf(jobs[j].received) = <<"completed">>

\* C3: the acknowledgement reaches the caller before the background runner
\* does anything: no envelope is posted and no parse starts while the
\* response of a callback request is still to be sent.
C3_AckBeforeRunner ==
    \A j \in AsyncJobs :
      (\/ jobs[j].posted # <<>>
       \/ jobs[j].pc \notin {"queued", "accepted"}
       \/ jobs[j].parsed # NoParse) => Acked(jobs[j])

C3_Witness ==
    \E j \in AsyncJobs :
      /\ jobs[j].pc = "parse_check"
      /\ Acked(jobs[j])

\* C4: a completed envelope, carrying the parse response, is posted only
\* when the parse and the building of the result raised nothing; a failed
\* envelope carrying the exception's message is posted if and only if one of
\* them raised; the runner never ends by an exception and is never stuck:
\* until it is over it has a step to take, as soon as no synchronous request
\* blocks the event loop (and that request has a step to take).
C4_CompletedOrFailed ==
    \A j \in AsyncJobs :
      LET job == jobs[j]
          raised == job.parsed.status = "error" \/ job.built = "raised"
          text == IF job.parsed.status = "error" THEN job.parsed.error
                  ELSE "cannot build response"
      IN /\ job.pc # "crashed"
         /\ ~Finished(job) =>
              IF loop_owner = 0 THEN ENABLED JobStep(j) ELSE ENABLED JobStep(loop_owner)
         /\ \A i \in DOMAIN job.posted :
              /\ job.posted[i].status = "completed" =>
                   /\ job.parsed.status = "ok" /\ job.built = "ok"
                   /\ job.posted[i].result.parse_response.extraction_method
                        = job.parsed.method
              /\ job.posted[i].status = "failed" =>
                   /\ raised
                   /\ Len(job.posted[i].message) = 2
                   /\ job.posted[i].message[2] = text
         /\ job.pc \in {"post_final", "done"} =>
              (raised <=> \E i \in DOMAIN job.posted : job.posted[i].status = "failed")

C4_Witness ==
    \E j \in AsyncJobs :
      /\ jobs[j].pc = "done"
      /\ jobs[j].built = "raised"
      /\ jobs[j].posted[2].status = "failed"

\* C5: callback delivery is at most once: no envelope is POSTed twice, a
\* POST that fails is not repeated and does not raise, and a processing
\* POST that failed stops neither the parse nor the one attempt to post the
\* final envelope.
C5_AtMostOnceDelivery ==
    \A j \in DOMAIN jobs :
      LET job == jobs[j]
      IN /\ job.pc # "crashed"
         /\ \A i, k \in DOMAIN job.posted :
              i # k => job.posted[i].status # job.posted[k].status
         /\ Len(job.received) <= Len(job.posted)
         /\ Len(job.reached) <= Len(job.posted)
         /\ job.pc = "done" /\ job.req.kind = Process => Len(job.posted) = 1
         /\ job.pc = "done" /\ IsAsync(job) =>
              /\ Len(job.posted) = 2
              /\ Len(job.reached) = 2
              /\ job.parsed.status # "none"

C5_Witness ==
    \E j \in AsyncJobs :
      /\ jobs[j].pc = "done"
      /\ jobs[j].reached = <<FALSE, TRUE>>
      /\ jobs[j].parsed.status = "ok"

\* C6 as stated: under any interleaving, every read of the page limit by a
\* request's parse returns that request's own limit (its max_pages, or the
\* configured default when it passed 0).
C6_ParseReadsOwnLimit ==
    \A j \in ParseJobs : ~jobs[j].misread

\* C7: a parse request that ran with no other parse request in flight
\* leaves parser.settings.max_pdf_pages at the value it had when the request
\* arrived, whether the parse succeeded or raised, on the synchronous
\* endpoints and in the background runners.
C7_AloneRestoresLimit ==
    \A j \in ParseJobs :
      (Finished(jobs[j]) /\ jobs[j].alone) => jobs[j].after = jobs[j].before

C7_Witness ==
    \E j, k \in ParseJobs :
      /\ jobs[j].pc = "done" /\ jobs[j].alone /\ IsAsync(jobs[j])
      /\ jobs[j].req.max_pages > 0 /\ jobs[j].parsed.status = "error"
      /\ jobs[k].pc = "done" /\ jobs[k].alone /\ IsSync(jobs[k])
      /\ jobs[k].req.max_pages > 0 /\ jobs[k].parsed.status = "error"

C9_EnvelopeShape ==
    \A j \in AsyncJobs :
      LET job == jobs[j]
          given == job.req.go_job_id \notin {None, ""}
      IN \A i \in DOMAIN job.posted :
           LET e == job.posted[i]
           IN /\ {"python_job_id", "job_type", "status", "message", "timestamp"}
                   \subseteq DOMAIN e
              /\ ("result" \in DOMAIN e) <=> (e.status = "completed")
              /\ ("job" \in DOMAIN e) <=> given
              /\ ("go_job_id" \in DOMAIN e) <=> given
              /\ given => /\ e.go_job_id = job.req.go_job_id
                          /\ e.job = [id |-> job.req.go_job_id, type |-> e.job_type]
              /\ e.python_job_id = job.posted[1].python_job_id
              /\ e.job_type = job.posted[1].job_type
              /\ e.job_type = job.req.kind

C9_Witness ==
    \E j, k \in AsyncJobs :
      /\ jobs[j].req.go_job_id = "go-1"
      /\ StatusesOf(jobs[j].posted) = <<"processing", "completed">>
      /\ jobs[k].req.go_job_id = None
      /\ StatusesOf(jobs[k].posted) = <<"processing", "failed">>

\* The pages a parse reported, 0 when it reported none.
ReportedPages(job) ==
    IF job.parsed.page_count = <<>> THEN 0 ELSE job.parsed.page_count[1]

\* C10 as stated: a request with max_pages = 0 is parsed with no page limit
\* (every page of the document is processed), and a request with
\* max_pages = N > 0 processes at most the first N pages.
C10_PageLimitHonoured ==
    \A j \in ParseJobs :
      jobs[j].parsed.status = "ok" =>
        IF jobs[j].req.max_pages = 0
        THEN ReportedPages(jobs[j]) = jobs[j].parsed.doc_pages
        ELSE ReportedPages(jobs[j]) <= jobs[j].req.max_pages

---------------------------------------------------------------------------
(* Text.  A Python str is a sequence of one-character strings. *)

SetMin(S) == CHOOSE x \in S : \A y \in S : x <= y
SetMax(S) == CHOOSE x \in S : \A y \in S : x >= y

Quote == "\""
Newline == "\n"

\* None where a str is expected, and the None of re.search
NoText == <<None>>

\* str.lower(), for the capital letters of the texts below
LowerChar(c) ==
    CASE c = "B" -> "b" [] c = "H" -> "h" [] c = "I" -> "i" [] c = "K" -> "k"
      [] c = "L" -> "l" [] c = "Q" -> "q" [] c = "T" -> "t" [] c = "W" -> "w"
      [] c = "E" -> "e"
      [] OTHER -> c

Lower(s) == [i \in 1..Len(s) |-> LowerChar(s[i])]

\* the characters str.strip() removes and \s matches
IsSpace(c) == c \in {" ", "\n", "\t"}

\* str.strip()
Strip(s) ==
    LET kept == {i \in 1..Len(s) : ~IsSpace(s[i])}
    IN  IF kept = {} THEN <<>> ELSE SubSeq(s, SetMin(kept), SetMax(kept))

\* str.startswith(prefix)
StartsWith(s, prefix) ==
    Len(s) >= Len(prefix) /\ SubSeq(s, 1, Len(prefix)) = prefix

\* c in s
Contains(s, c) == \E i \in 1..Len(s) : s[i] = c

\* s[n:]
From(s, n) == SubSeq(s, n + 1, Len(s))

\* str.split(sep) for a one-character separator
Split(s, sep) ==
    LET at == {i \in 1..Len(s) : s[i] = sep}
        cut(k) == IF k = 0 THEN 0
                  ELSE IF k > Cardinality(at) THEN Len(s) + 1
                  ELSE CHOOSE i \in at : Cardinality({j \in at : j <= i}) = k
    IN  [k \in 1..(Cardinality(at) + 1) |-> SubSeq(s, cut(k - 1) + 1, cut(k) - 1)]

\* [f(x) for x in xs if x]: the non-empty members, in order
NonEmpty(xs) == SelectSeq(xs, LAMBDA x : x # <<>>)

StripAll(xs) == [k \in 1..Len(xs) |-> Strip(xs[k])]

---------------------------------------------------------------------------
(* DocumentChunker._clean_title *)

PrefixComprehensive ==
    <<"B","a","s","e","d"," ","o","n"," ","t","h","e"," ","p","r","o","v",
      "i","d","e","d"," ","c","o","n","t","e","x","t",","," ","a"," ","c",
      "o","m","p","r","e","h","e","n","s","i","v","e"," ","t","i","t","l",
      "e"," ","f","o","r"," ","t","h","i","s"," ","d","o","c","u","m","e",
      "n","t"," ","c","o","u","l","d"," ","b","e",":">>

PrefixTitleIs ==
    <<"B","a","s","e","d"," ","o","n"," ","t","h","e"," ","p","r","o","v",
      "i","d","e","d"," ","c","o","n","t","e","x","t",","," ","t","h","e",
      " ","t","i","t","l","e"," ","i","s",":">>

PrefixContext ==
    <<"B","a","s","e","d"," ","o","n"," ","t","h","e"," ","p","r","o","v",
      "i","d","e","d"," ","c","o","n","t","e","x","t",",">>

PrefixTitleOf ==
    <<"T","h","e"," ","t","i","t","l","e"," ","o","f"," ","t","h","i","s",
      " ","d","o","c","u","m","e","n","t"," ","i","s",":">>

PrefixHereIs ==
    <<"H","e","r","e"," ","i","s"," ","a"," ","t","i","t","l","e"," ","f",
      "o","r"," ","t","h","e"," ","d","o","c","u","m","e","n","t",":">>

PrefixTitle ==
    <<"T","i","t","l","e",":">>

\* prefixes, in the order the loop visits them
prefixes ==
    <<PrefixComprehensive, PrefixTitleIs, PrefixContext,
      PrefixTitleOf, PrefixHereIs, PrefixTitle>>

TitleMarker ==
    <<"t","i","t","l","e",":">>

WouldSuggest ==
    <<"i"," ","w","o","u","l","d"," ","s","u","g","g","e","s","t">>

\* The longest title line the fallback takes for a title is shorter than this.
MaxTitleLine == 100

\* re.search(r'"([^"]{5,})"', title): the leftmost quote followed by at least
\* five characters other than a quote and then a quote; the group, or None.
QuotesMatch(title) ==
    LET closing(i) == SetMin({j \in (i + 1)..Len(title) : title[j] = Quote}
                             \cup {Len(title) + 1})
        opens == {i \in 1..Len(title) :
                    /\ title[i] = Quote
                    /\ closing(i) <= Len(title)
                    /\ closing(i) - i - 1 >= 5}
    IN  IF opens = {} THEN NoText
        ELSE LET i == SetMin(opens) IN SubSeq(title, i + 1, closing(i) - 1)

\* The end of the line that holds position i: the index of its last character.
EndOfLine(s, i) ==
    SetMin({j \in i..Len(s) : s[j] = Newline} \cup {Len(s) + 1}) - 1

\* re.search(r"(?i)title:\s*(.+)$", title, re.MULTILINE): for the leftmost
\* marker that matches, \s* takes as much white space (line breaks included)
\* as leaves a character other than a line break for (.+), which then runs to
\* the end of that line; the group, or None.
TitleMatch(title) ==
    LET low == Lower(title)
        n == Len(TitleMarker)
        after(i) == i + n
        spaces(i) == SetMin({j \in after(i)..Len(title) : ~IsSpace(title[j])}
                            \cup {Len(title) + 1}) - after(i)
        starts(i) == {p \in after(i)..(after(i) + spaces(i)) :
                        p <= Len(title) /\ title[p] # Newline}
        marks == {i \in 1..(Len(title) - n + 1) :
                    /\ SubSeq(low, i, i + n - 1) = TitleMarker
                    /\ starts(i) # {}}
    IN  IF marks = {} THEN NoText
        ELSE LET i == SetMin(marks)
                 p == SetMax(starts(i))
             IN  SubSeq(title, p, EndOfLine(title, p))

\* for prefix in prefixes: if cleaned.lower().startswith(prefix.lower()):
\*     cleaned = cleaned[len(prefix):].strip()
RECURSIVE StripPrefixes(_, _)
StripPrefixes(cleaned, k) ==
    IF k > Len(prefixes) THEN cleaned
    ELSE IF StartsWith(Lower(cleaned), Lower(prefixes[k]))
         THEN StripPrefixes(Strip(From(cleaned, Len(prefixes[k]))), k + 1)
         ELSE StripPrefixes(cleaned, k + 1)

\* The first line that is short and does not start with "I would suggest",
\* else the first line.
TitleLine(cleaned) ==
    LET lines == NonEmpty(StripAll(Split(cleaned, Newline)))
        fit == {k \in 1..Len(lines) :
                  /\ Len(lines[k]) < MaxTitleLine
                  /\ ~StartsWith(Lower(lines[k]), WouldSuggest)}
    IN  IF fit # {} THEN lines[SetMin(fit)]
        ELSE IF lines # <<>> THEN lines[1]
        ELSE cleaned

_clean_title(title) ==
    IF title = NoText \/ title = <<>> THEN <<>>
    ELSE IF QuotesMatch(title) # NoText THEN Strip(QuotesMatch(title))
    ELSE IF TitleMatch(title) # NoText THEN Strip(TitleMatch(title))
    ELSE LET cleaned == StripPrefixes(Strip(title), 1)
         IN  IF Contains(cleaned, Newline) THEN TitleLine(cleaned) ELSE cleaned

---------------------------------------------------------------------------
(* Calls of _clean_title *)

MaxTitleTokens == 3
MaxQuotedTokens == 5

\* The pieces the raw titles are made of.
QuantumWidgets ==
    <<"Q","u","a","n","t","u","m"," ","W","i","d","g","e","t","s">>
ShortWord == <<"a","b">>
MarkerTitle == <<"T","i","t","l","e",":">>
ISuggest == <<"I"," ","w","o","u","l","d"," ","s","u","g","g","e","s","t">>
LongLine == [i \in 1..MaxTitleLine |-> "x"]

TitlePieces ==
    {<<Quote>>, <<Newline>>, <<" ">>, ShortWord, QuantumWidgets, MarkerTitle,
     PrefixTitleIs, PrefixContext, ISuggest, LongLine}

\* The pieces of a quoted, possibly multi-line, title.
QuotedPieces == {<<Quote>>, <<Newline>>, <<" ">>, ShortWord}

RECURSIVE Concat(_)
Concat(pieces) ==
    IF pieces = <<>> THEN <<>> ELSE Head(pieces) \o Concat(Tail(pieces))

Texts(pieces, n) == {Concat(ps) : ps \in UNION {[1..k -> pieces] : k \in 0..n}}

\* 'Based on the provided context, the title is: "Quantum Widgets"'
ExampleTitle ==
    PrefixTitleIs \o <<" ", Quote>> \o QuantumWidgets \o <<Quote>>

RawTitles ==
    {NoText, ExampleTitle} \cup Texts(TitlePieces, MaxTitleTokens)
                           \cup Texts(QuotedPieces, MaxQuotedTokens)

TitleInit ==
    /\ ParseAtRest
    /\ chunker_call = AtRest
    /\ upload_call = AtRest
    /\ parser_call = AtRest
    /\ cleanup_call = AtRest
    /\ embedder = AtRest
    /\ extractors = AtRest
    /\ title_call = AtRest

\* The extractor hands a raw title to _clean_title.
CleanTitleCall(title) ==
    /\ title_call.pc = "rest"
    /\ title_call' = [pc |-> "called", title |-> title]

CleanTitleReturn ==
    /\ title_call.pc = "called"
    /\ title_call' = [pc |-> "returned",
                      title |-> title_call.title,
                      result |-> _clean_title(title_call.title)]

TitleNext ==
    \/ \E title \in RawTitles : CleanTitleCall(title)
         /\ UNCHANGED <<vars, chunker_vars, upload_vars, parser_vars, cleanup_vars, embedder_vars, extractor_vars>>
    \/ CleanTitleReturn
         /\ UNCHANGED <<vars, chunker_vars, upload_vars, parser_vars, cleanup_vars, embedder_vars, extractor_vars>>

TitleSpec == TitleInit /\ [][TitleNext]_<<vars, chunker_vars, title_vars, upload_vars, parser_vars, cleanup_vars, embedder_vars, extractor_vars>>

---------------------------------------------------------------------------
(* Statements about _clean_title *)

CleanedTitles == {c \in {title_call} : c.pc = "returned"}

\* The contents of the double-quoted spans of at least five characters,
\* leftmost first: pairs of quotes with no quote between them.
QuotedSpans(t) ==
    {<<i, j>> \in (1..Len(t)) \X (1..Len(t)) :
        /\ i < j
        /\ t[i] = Quote /\ t[j] = Quote
        /\ \A k \in (i + 1)..(j - 1) : t[k] # Quote
        /\ j - i - 1 >= 5}

\* Where a "Title:" marker stands, in any case.
MarkersAt(t) ==
    {i \in 1..(Len(t) - Len(TitleMarker) + 1) :
        SubSeq(Lower(t), i, i + Len(TitleMarker) - 1) = TitleMarker}

\* What follows the marker at i on the line of the marker.
SameLineAfter(t, i) ==
    SubSeq(t, i + Len(TitleMarker), EndOfLine(t, i))

\* C19 as stated: _clean_title stops at the first rule that matches: a
\* double-quoted span of at least 5 characters yields the contents of the
\* span; otherwise a "Title:" marker, in any case, yields the text that
\* follows it on the same line; otherwise the known prefixes are stripped;
\* and the example yields exactly "Quantum Widgets".
C19_RulesInOrder ==
    \A c \in CleanedTitles :
      LET t == c.title
      IN  /\ t = ExampleTitle => c.result = QuantumWidgets
          /\ t # NoText /\ t # <<>> =>
               IF QuotedSpans(t) # {}
               THEN \E span \in QuotedSpans(t) :
                      /\ \A other \in QuotedSpans(t) : span[1] <= other[1]
                      /\ c.result = Strip(SubSeq(t, span[1] + 1, span[2] - 1))
               ELSE IF MarkersAt(t) # {}
               THEN \E i \in MarkersAt(t) : c.result = Strip(SameLineAfter(t, i))
               ELSE ~Contains(Strip(t), Newline) =>
                      c.result = StripPrefixes(Strip(t), 1)

\* C20 as stated: for every input _clean_title returns a string with no
\* line break in it, and the empty string for empty input.
C20_SingleLineString ==
    \A c \in CleanedTitles :
      /\ ~Contains(c.result, Newline)
      /\ c.title \in {NoText, <<>>} => c.result = <<>>

---------------------------------------------------------------------------
(* DocumentChunker: the splitter for a strategy *)

\* The values of ChunkingStrategy.  The enum is a str enum: a plain string
\* equal to a member's value compares equal to the member.
SENTENCE == "sentence"
SEMANTIC == "semantic"
TOKEN == "token"
RECURSIVE_STRATEGY == "recursive"
MARKDOWN == "markdown"
HIERARCHICAL == "hierarchical"
ChunkingStrategy == {SENTENCE, SEMANTIC, TOKEN, RECURSIVE_STRATEGY, MARKDOWN, HIERARCHICAL}

Max(a, b) == IF a >= b THEN a ELSE b

\* chunk_sizes=[128, 512, 1024] whatever the request asks for.
HierarchySizes_fixed(chunk_size) == <<128, 512, 1024>>

\* small, medium, large
HierarchySizes(chunk_size) ==
    LET small == Max(100, chunk_size \div 4)
        medium == Max(200, chunk_size \div 2)
        large == chunk_size
    IN  <<small, medium, large>>

SentenceSplitter(chunk_size, chunk_overlap, paragraph_separator, regex) ==
    [class |-> "SentenceSplitter",
     chunk_size |-> chunk_size,
     chunk_overlap |-> chunk_overlap,
     paragraph_separator |-> paragraph_separator,
     secondary_chunking_regex |-> regex]

\* What the constructors use for an argument the call leaves out.
LibraryDefault == "<default>"

\* An unknown strategy raises instead of falling back.
DefaultSplitter_raises(chunk_size, chunk_overlap) == [class |-> "<raised>"]

\* The else branch: "Default to sentence splitter"
DefaultSplitter(chunk_size, chunk_overlap) ==
    SentenceSplitter(chunk_size, chunk_overlap, LibraryDefault, LibraryDefault)

_get_splitter(strategy, chunk_size, chunk_overlap) ==
    IF strategy = HIERARCHICAL
    THEN [class |-> "HierarchicalNodeParser",
          chunk_sizes |-> HierarchySizes(chunk_size),
          chunk_overlap |-> chunk_overlap,
          node_parser_ids |-> <<"small", "medium", "large">>]
    ELSE IF strategy = SENTENCE
    THEN SentenceSplitter(chunk_size, chunk_overlap, "\n\n", "[^,.;?!]+[,.;?!]?")
    ELSE IF strategy = TOKEN
    THEN [class |-> "TokenTextSplitter",
          chunk_size |-> chunk_size,
          chunk_overlap |-> chunk_overlap]
    ELSE IF strategy = MARKDOWN
    THEN [class |-> "MarkdownNodeParser"]
    ELSE IF strategy = RECURSIVE_STRATEGY
    THEN SentenceSplitter(chunk_size, chunk_overlap, "\n\n", LibraryDefault)
    ELSE IF strategy = SEMANTIC
    THEN [class |-> "SemanticSplitterNodeParser",
          buffer_size |-> 1,
          breakpoint_percentile_threshold |-> 95,
          embed_model |-> "OpenAIEmbedding"]
    ELSE DefaultSplitter(chunk_size, chunk_overlap)

---------------------------------------------------------------------------
(* DocumentChunker._extract_metadata: cleaning what the extractors return *)

\* str.replace(old, ""), leftmost occurrences first
RECURSIVE Remove(_, _)
Remove(s, old) ==
    IF Len(s) < Len(old) THEN s
    ELSE IF SubSeq(s, 1, Len(old)) = old THEN Remove(From(s, Len(old)), old)
    ELSE <<Head(s)>> \o Remove(Tail(s), old)

\* sep.join(xs)
RECURSIVE Join(_, _)
Join(xs, sep) ==
    IF xs = <<>> THEN <<>>
    ELSE IF Len(xs) = 1 THEN xs[1]
    ELSE xs[1] \o sep \o Join(Tail(xs), sep)

LabelKeywords == <<"K","e","y","w","o","r","d","s",":">>
LabelKeywordsLower == <<"k","e","y","w","o","r","d","s",":">>

\* The clean-up of node.metadata["excerpt_keywords"]
CleanKeywords(raw_val) ==
    LET cleaned_str == Strip(Remove(Remove(raw_val, LabelKeywords), LabelKeywordsLower))
        keywords_list == NonEmpty(StripAll(Split(cleaned_str, ",")))
    IN  Join(keywords_list, <<",", " ">>)

Digits == {"0", "1", "2", "3", "4", "5", "6", "7", "8", "9"}

\* q.strip().startswith(("1.", "2.", "3.", "4.", "5."))
Numbered(q) ==
    \E d \in {"1", "2", "3", "4", "5"} : StartsWith(q, <<d, ".">>)

\* re.sub(r"^\d+\.\s*", "", q)
StripMarker(q) ==
    LET digits == SetMin({i \in 1..Len(q) : q[i] \notin Digits} \cup {Len(q) + 1}) - 1
        dot == digits + 1
        rest == SetMin({i \in (dot + 1)..Len(q) : ~IsSpace(q[i])} \cup {Len(q) + 1})
    IN  IF digits >= 1 /\ dot <= Len(q) /\ q[dot] = "."
        THEN SubSeq(q, rest, Len(q))
        ELSE q

\* The clean-up of a questions string: the lines that are no list items, or,
\* when that leaves nothing of a string that starts with "1.", every line
\* with its marker removed.
CleanQuestions(raw_val) ==
    LET lines == Split(raw_val, Newline)
        plain == SelectSeq(StripAll(lines), LAMBDA q : q # <<>> /\ ~Numbered(q))
        kept == SelectSeq(lines, LAMBDA q : Strip(q) # <<>>)
    IN  IF plain = <<>> /\ StartsWith(Strip(raw_val), <<"1", ".">>)
        THEN [k \in 1..Len(kept) |-> Strip(StripMarker(kept[k]))]
        ELSE plain

---------------------------------------------------------------------------
(* Calls of the chunker *)

MaxNodes == 2
MaxTables == 2

DocumentId == "doc-1"
GeneratedId == "uuid4"

ChunkSizes == {50, 100, 400, 1000}
ChunkOverlaps == {0, 50, 100, 500}

\* What a caller can pass for strategy: a member of the enum, or another
\* string ("fixed" is the name the request surface uses for RECURSIVE).
ServiceStrategies == ChunkingStrategy \cup {"fixed"}

\* The steps of _extract_metadata that can raise: building the LLM, and the
\* three extractor calls.
EnrichmentSteps == {"llm", "title", "keywords", "questions"}

\* What the extractors return for a node (the raw LLM output).
RawTitle == ExampleTitle
RawKeywords ==
    <<"K","e","y","w","o","r","d","s",":"," ","a","l","p","h","a",","," ",
      "b","e","t","a"," ",","," ",","," ","g","a","m","m","a">>
RawQuestions ==
    <<"1","."," ","W","h","a","t"," ","i","s"," ","X","?","\n",
      "2","."," ","W","h","a","t"," ","i","s"," ","Y","?">>
QuestionsKey == "questions_this_excerpt_can_answer"

\* A ParsedDocument as chunk_document reads it.
ParsedDocs ==
    {[markdown_text |-> None, raw_text |-> "", title |-> None],
     [markdown_text |-> "# markdown", raw_text |-> "raw", title |-> "Doc title"]}

ChunkerCall(entry, text, strategy, size, overlap, include, extract, fails, tables, doc) ==
    [entry |-> entry,
     text |-> text,
     strategy |-> strategy,
     chunk_size |-> size,
     chunk_overlap |-> overlap,
     include_metadata |-> include,
     extract_metadata |-> extract,
     fails |-> fails,
     tables |-> tables,
     doc |-> doc]

FullDoc == [markdown_text |-> "# markdown", raw_text |-> "raw", title |-> "Doc title"]

\* Calls that differ in strategy, size and overlap.
SplitterCalls ==
    {ChunkerCall(entry, "some text", strategy, size, overlap, TRUE, FALSE, {}, 0, FullDoc) :
        entry \in {"chunk_document", "chunk_text"},
        strategy \in ServiceStrategies,
        size \in ChunkSizes,
        overlap \in ChunkOverlaps}

\* Calls of chunk_document that ask for enrichment, with the steps that fail.
EnrichCalls ==
    {ChunkerCall("chunk_document", "", strategy, 400, 50, doc.title # None, TRUE,
                 fails, tables, doc) :
        strategy \in {SENTENCE, HIERARCHICAL},
        fails \in SUBSET EnrichmentSteps,
        tables \in 0..MaxTables,
        doc \in ParsedDocs}

ServiceCalls == SplitterCalls \cup EnrichCalls

\* POST /chunk/text
RouteStrategyNames ==
    {"sentence", "semantic", "token", "fixed", "markdown", "hierarchical",
     "SENTENCE", "recursive", "bogus"}

RouteTextRequests ==
    {[text |-> text, strategy |-> name, chunk_size |-> size,
      chunk_overlap |-> overlap, extract_metadata |-> extract, num_questions |-> 3] :
        text \in {"", " ", "some text"},
        name \in RouteStrategyNames,
        size \in {100, 400},
        overlap \in {50, 100, 500},
        extract \in BOOLEAN}

\* POST /documents/chunk
RouteDocumentsRequests ==
    {[strategy |-> strategy, chunk_size |-> size, chunk_overlap |-> overlap,
      parses |-> parses] :
        strategy \in ServiceStrategies,
        size \in ChunkSizes,
        overlap \in ChunkOverlaps,
        parses \in BOOLEAN}

NoSplitter == [class |-> "<none>"]

NewChunkerCall(req) ==
    [pc |-> "called",
     req |-> req,
     document_id |-> IF req.entry = "chunk_text" THEN GeneratedId ELSE DocumentId,
     splitter |-> NoSplitter,
     produced |-> <<>>,
     nodes |-> <<>>,
     failed |-> None,
     chunks |-> <<>>,
     result |-> None,
     raised |-> None,
     response |-> NoResponse]

ChunkerInit ==
    /\ ParseAtRest
    /\ title_call = AtRest
    /\ upload_call = AtRest
    /\ parser_call = AtRest
    /\ cleanup_call = AtRest
    /\ embedder = AtRest
    /\ extractors = AtRest
    /\ chunker_call = AtRest

\* chunker.chunk_document(...) and chunker.chunk_text(...) called directly
ChunkerServiceCall(req) ==
    /\ chunker_call.pc = "rest"
    /\ chunker_call' = NewChunkerCall(req)

---------------------------------------------------------------------------
(* The routes that call the chunker *)

\* The parameters of DocumentChunker.chunk_text
chunk_text_parameters == {"text", "strategy", "chunk_size", "chunk_overlap", "metadata"}

\* The keyword arguments of the call in routes/chunk.py
route_keyword_arguments ==
    {"text", "strategy", "chunk_size", "chunk_overlap", "extract_metadata", "num_questions"}

\* Python binds a call's keyword arguments to parameters, or raises TypeError.
Binds(arguments, parameters) == arguments \subseteq parameters

\* request.strategy.lower()
LowerName(name) == IF name = "SENTENCE" THEN "sentence" ELSE name

strategy_map ==
    [name \in {"sentence", "semantic", "token", "fixed", "markdown", "hierarchical"} |->
        CASE name = "sentence" -> SENTENCE
          [] name = "semantic" -> SEMANTIC
          [] name = "token" -> TOKEN
          [] name = "fixed" -> RECURSIVE_STRATEGY
          [] name = "markdown" -> MARKDOWN
          [] name = "hierarchical" -> HIERARCHICAL]

Responded(call, code, detail) ==
    [call EXCEPT !.pc = "responded", !.response = [code |-> code, body |-> detail]]

\* routes/chunk.py chunk_text, up to the call of the chunker
RouteChunkText(request) ==
    /\ chunker_call.pc = "rest"
    /\ LET req == ChunkerCall("route_chunk_text", request.text,
                              IF LowerName(request.strategy) \in DOMAIN strategy_map
                              THEN strategy_map[LowerName(request.strategy)]
                              ELSE None,
                              request.chunk_size, request.chunk_overlap, FALSE,
                              request.extract_metadata, {}, 0, FullDoc)
           call == NewChunkerCall(req)
       IN  chunker_call' =
             IF IsBlank(request.text)
             THEN Responded(call, 400, [detail |-> "Empty text provided"])
             ELSE IF LowerName(request.strategy) \notin DOMAIN strategy_map
             THEN Responded(call, 400, [detail |-> "Invalid strategy"])
             ELSE IF ~Binds(route_keyword_arguments, chunk_text_parameters)
             THEN Responded([call EXCEPT !.raised = "TypeError"], 500,
                            [detail |-> "Failed to chunk text"])
             ELSE call

\* Query(ge=100, le=4096), Query(ge=0, le=500) and the enum type of
\* chunking_strategy
ValidQuery(request) ==
    /\ request.strategy \in ChunkingStrategy
    /\ request.chunk_size >= 100 /\ request.chunk_size <= 4096
    /\ request.chunk_overlap >= 0 /\ request.chunk_overlap <= 500

\* routes/documents.py chunk_document, up to the call of the chunker
RouteDocumentsChunk(request) ==
    /\ chunker_call.pc = "rest"
    /\ LET req == ChunkerCall("route_documents_chunk", "", request.strategy,
                              request.chunk_size, request.chunk_overlap, TRUE, FALSE,
                              {}, 0, FullDoc)
           call == NewChunkerCall(req)
       IN  chunker_call' =
             IF ~ValidQuery(request)
             THEN Responded(call, 422, [detail |-> "validation error"])
             ELSE IF ~request.parses
             THEN Responded([call EXCEPT !.raised = "parse_bytes"], 500,
                            [detail |-> "parse error"])
             ELSE call
---------------------------------------------------------------------------
(* DocumentChunker.chunk_document and chunk_text, step by step *)

FromRoute(call) == call.req.entry \in {"route_chunk_text", "route_documents_chunk"}
ForDocument(call) == call.req.entry \in {"chunk_document", "route_documents_chunk"}

\* text_to_chunk = parsed_doc.markdown_text or parsed_doc.raw_text
TextToChunk(call) ==
    IF ~ForDocument(call) THEN call.req.text
    ELSE IF Truthy(call.req.doc.markdown_text) THEN call.req.doc.markdown_text
    ELSE IF Truthy(call.req.doc.raw_text) THEN call.req.doc.raw_text
    ELSE ""

\* The metadata of the LlamaIndex document, which its nodes inherit.
DocMetadata(call) ==
    IF ~ForDocument(call) \/ ~call.req.include_metadata THEN Empty
    ELSE Merge([document_id |-> call.document_id,
                filename |-> "a.pdf",
                file_type |-> "pdf"],
               IF Truthy(call.req.doc.title)
               THEN [title |-> call.req.doc.title]
               ELSE Empty)

\* splitter = self._get_splitter(strategy, chunk_size, chunk_overlap)
GetSplitter ==
    /\ chunker_call.pc = "called"
    /\ LET splitter == _get_splitter(chunker_call.req.strategy,
                                     chunker_call.req.chunk_size,
                                     chunker_call.req.chunk_overlap)
       IN  chunker_call' =
             IF splitter.class = "<raised>"
             THEN [chunker_call EXCEPT !.pc = "raised", !.raised = "_get_splitter"]
             ELSE [chunker_call EXCEPT !.pc = "split", !.splitter = splitter]

NodeId(i, ids) == IF ids THEN "node-" \o ToString(i) ELSE ""

\* The nodes the splitter returns: n of them, with node ids or without; the
\* nodes of the hierarchical parser form a tree under the first node.
SplitterNodes(call, n, ids) ==
    [i \in 1..n |->
        [node_id |-> NodeId(i, ids),
         text |-> "text-" \o ToString(i),
         tokens |-> i,
         metadata |-> DocMetadata(call),
         parent_node |-> IF call.splitter.class = "HierarchicalNodeParser" /\ i > 1
                         THEN NodeId(1, ids) ELSE None,
         child_nodes |-> IF call.splitter.class = "HierarchicalNodeParser" /\ i = 1
                         THEN [k \in 1..(n - 1) |-> NodeId(k + 1, ids)] ELSE <<>>]]

\* for node in nodes: parent_id and child_ids
AddParentInfo(node) ==
    LET with_parent == IF node.parent_node # None
                       THEN Merge(node.metadata, [parent_id |-> node.parent_node])
                       ELSE node.metadata
        with_children == IF node.child_nodes # <<>>
                         THEN Merge(with_parent, [child_ids |-> node.child_nodes])
                         ELSE with_parent
    IN  [node EXCEPT !.metadata = with_children]

\* nodes = splitter.get_nodes_from_documents([llama_doc]), which the library
\* may fail (no embedding model for the semantic parser), and the parent info
SplitNodes ==
    /\ chunker_call.pc = "split"
    /\ \E n \in 0..MaxNodes, ids \in BOOLEAN, splits \in BOOLEAN :
         LET raw == SplitterNodes(chunker_call, n, ids)
             nodes == IF ForDocument(chunker_call)
                      THEN [i \in 1..n |-> AddParentInfo(raw[i])]
                      ELSE raw
         IN  chunker_call' =
               IF ~splits
               THEN [chunker_call EXCEPT !.pc = "raised", !.raised = "split"]
               ELSE [chunker_call EXCEPT
                       !.produced = nodes,
                       !.nodes = nodes,
                       !.pc = IF /\ ForDocument(chunker_call)
                                 /\ chunker_call.req.extract_metadata
                                 /\ nodes # <<>>
                              THEN "extract_title" ELSE "convert"]

\* The except clause re-raises.
ExceptExtraction_reraise(call, step) ==
    [call EXCEPT !.pc = "raised", !.raised = step]

\* except Exception: log, and return the nodes as they are
ExceptExtraction(call, step) ==
    [call EXCEPT !.pc = "convert", !.failed = step]

WithMetadata(nodes, key, value) ==
    [i \in DOMAIN nodes |->
        [nodes[i] EXCEPT !.metadata = Merge(@, (key :> value))]]

\* title_extractor = self._get_title_extractor(), process_nodes, _clean_title
ExtractTitle ==
    /\ chunker_call.pc = "extract_title"
    /\ chunker_call' =
         IF "llm" \in chunker_call.req.fails
         THEN ExceptExtraction(chunker_call, "llm")
         ELSE IF "title" \in chunker_call.req.fails
         THEN ExceptExtraction(chunker_call, "title")
         ELSE [chunker_call EXCEPT
                 !.nodes = WithMetadata(@, "document_title", _clean_title(RawTitle)),
                 !.pc = "extract_keywords"]

\* keyword_extractor.process_nodes and the clean-up of excerpt_keywords
ExtractKeywords ==
    /\ chunker_call.pc = "extract_keywords"
    /\ chunker_call' =
         IF "keywords" \in chunker_call.req.fails
         THEN ExceptExtraction(chunker_call, "keywords")
         ELSE [chunker_call EXCEPT
                 !.nodes = WithMetadata(@, "excerpt_keywords", CleanKeywords(RawKeywords)),
                 !.pc = "extract_questions"]

\* questions_extractor.process_nodes, the key normalised to "questions", and
\* the clean-up of the questions
ExtractQuestions ==
    /\ chunker_call.pc = "extract_questions"
    /\ chunker_call' =
         IF "questions" \in chunker_call.req.fails
         THEN ExceptExtraction(chunker_call, "questions")
         ELSE [chunker_call EXCEPT
                 !.nodes = WithMetadata(@, "questions", CleanQuestions(RawQuestions)),
                 !.pc = "convert"]

\* chunk_index=start_index, for every table
TableIndex_restart(start_index, idx) == idx

\* chunk_index=start_index + idx
TableIndex(start_index, idx) == start_index + idx

\* One TextChunk of _nodes_to_chunks; idx counts from 0.
TextChunk(node, document_id, idx) ==
    [id |-> IF node.node_id # "" THEN node.node_id
            ELSE document_id \o "_chunk_" \o ToString(idx),
     text |-> node.text,
     metadata |-> Merge(node.metadata, [document_id |-> document_id]),
     page_number |-> None,
     chunk_index |-> idx,
     token_count |-> node.tokens]

_nodes_to_chunks(nodes, document_id) ==
    [i \in 1..Len(nodes) |-> TextChunk(nodes[i], document_id, i - 1)]

\* parsed_doc.tables
Tables(n) == [i \in 1..n |-> [markdown |-> "| table |", page |-> i]]

_chunk_tables(tables, document_id, start_index) ==
    [i \in 1..Len(tables) |->
        [id |-> document_id \o "_table_" \o ToString(i - 1),
         text |-> tables[i].markdown,
         metadata |-> [document_id |-> document_id,
                       content_type |-> "table",
                       table_index |-> i - 1,
                       page |-> tables[i].page],
         page_number |-> tables[i].page,
         chunk_index |-> TableIndex(start_index, i - 1),
         token_count |-> 1]]

\* chunks = self._nodes_to_chunks(nodes, document_id); chunk_text returns them
NodesToChunks ==
    /\ chunker_call.pc = "convert"
    /\ LET chunks == _nodes_to_chunks(chunker_call.nodes, chunker_call.document_id)
       IN  chunker_call' =
             IF ForDocument(chunker_call)
             THEN [chunker_call EXCEPT !.chunks = chunks, !.pc = "tables"]
             ELSE [chunker_call EXCEPT !.chunks = chunks, !.pc = "returned",
                                       !.result = [chunks |-> chunks]]

\* the table chunks, and the ChunkedDocument
ChunkTables ==
    /\ chunker_call.pc = "tables"
    /\ LET tables == Tables(chunker_call.req.tables)
           chunks == IF tables # <<>>
                     THEN chunker_call.chunks \o
                          _chunk_tables(tables, chunker_call.document_id,
                                        Len(chunker_call.chunks))
                     ELSE chunker_call.chunks
       IN  chunker_call' =
             [chunker_call EXCEPT
                !.chunks = chunks,
                !.pc = "returned",
                !.result = [document_id |-> chunker_call.document_id,
                            chunks |-> chunks,
                            total_chunks |-> Len(chunks),
                            chunking_strategy |-> chunker_call.req.strategy,
                            chunk_size |-> chunker_call.req.chunk_size,
                            chunk_overlap |-> chunker_call.req.chunk_overlap]]

\* The route returns the result, or answers 500 for an exception.
RouteRespond ==
    /\ chunker_call.pc \in {"returned", "raised"}
    /\ FromRoute(chunker_call)
    /\ chunker_call' =
         IF chunker_call.pc = "raised"
         THEN Responded(chunker_call, 500, [detail |-> chunker_call.raised])
         ELSE Responded(chunker_call, 200,
                        [chunks |-> [i \in DOMAIN chunker_call.chunks |->
                                       [text |-> chunker_call.chunks[i].text,
                                        index |-> chunker_call.chunks[i].chunk_index]],
                         total_chunks |-> Len(chunker_call.chunks)])

ChunkerNext ==
    \/ \E req \in ServiceCalls : ChunkerServiceCall(req)
         /\ UNCHANGED <<vars, title_vars, upload_vars, parser_vars, cleanup_vars, embedder_vars, extractor_vars>>
    \/ \E request \in RouteTextRequests : RouteChunkText(request)
         /\ UNCHANGED <<vars, title_vars, upload_vars, parser_vars, cleanup_vars, embedder_vars, extractor_vars>>
    \/ \E request \in RouteDocumentsRequests : RouteDocumentsChunk(request)
         /\ UNCHANGED <<vars, title_vars, upload_vars, parser_vars, cleanup_vars, embedder_vars, extractor_vars>>
    \/ GetSplitter /\ UNCHANGED <<vars, title_vars, upload_vars, parser_vars, cleanup_vars, embedder_vars, extractor_vars>>
    \/ SplitNodes /\ UNCHANGED <<vars, title_vars, upload_vars, parser_vars, cleanup_vars, embedder_vars, extractor_vars>>
    \/ ExtractTitle /\ UNCHANGED <<vars, title_vars, upload_vars, parser_vars, cleanup_vars, embedder_vars, extractor_vars>>
    \/ ExtractKeywords /\ UNCHANGED <<vars, title_vars, upload_vars, parser_vars, cleanup_vars, embedder_vars, extractor_vars>>
    \/ ExtractQuestions /\ UNCHANGED <<vars, title_vars, upload_vars, parser_vars, cleanup_vars, embedder_vars, extractor_vars>>
    \/ NodesToChunks /\ UNCHANGED <<vars, title_vars, upload_vars, parser_vars, cleanup_vars, embedder_vars, extractor_vars>>
    \/ ChunkTables /\ UNCHANGED <<vars, title_vars, upload_vars, parser_vars, cleanup_vars, embedder_vars, extractor_vars>>
    \/ RouteRespond /\ UNCHANGED <<vars, title_vars, upload_vars, parser_vars, cleanup_vars, embedder_vars, extractor_vars>>

ChunkerSpec ==
    ChunkerInit /\ [][ChunkerNext]_<<vars, chunker_vars, title_vars, upload_vars, parser_vars, cleanup_vars, embedder_vars, extractor_vars>>

---------------------------------------------------------------------------
(* Claims about the chunker *)

\* The result of a chunker call that has returned.
Returned == chunker_call.pc = "returned"

IsTableChunk(chunk) == "content_type" \in DOMAIN chunk.metadata

\* C11: in every result of chunk_document and chunk_text the chunk_index
\* values are 0, 1, ... in list order (so unique and contiguous), the
\* table chunks follow the text chunks and continue their numbering, and
\* total_chunks is the length of the chunk list.
C11_ChunkIndexContiguous ==
    Returned =>
      LET chunks == chunker_call.result.chunks
          texts == Len(chunker_call.produced)
      IN  /\ \A i \in 1..Len(chunks) : chunks[i].chunk_index = i - 1
          /\ \A i \in 1..Len(chunks), k \in 1..Len(chunks) :
               chunks[i].chunk_index = chunks[k].chunk_index => i = k
          /\ ForDocument(chunker_call) =>
               /\ chunker_call.result.total_chunks = Len(chunks)
               /\ Len(chunks) = texts + chunker_call.req.tables
               /\ \A i \in 1..Len(chunks) : IsTableChunk(chunks[i]) <=> i > texts
          /\ ~ForDocument(chunker_call) => Len(chunks) = texts

\* chunk_document returned text chunks followed by two table chunks.
C11_Witness ==
    /\ Returned
    /\ ForDocument(chunker_call)
    /\ Len(chunker_call.produced) = MaxNodes
    /\ chunker_call.req.tables = MaxTables
    /\ chunker_call.result.total_chunks = MaxNodes + MaxTables

\* The chunks of a returned call all carry the metadata field.
Populated(field) ==
    \A i \in 1..Len(chunker_call.chunks) :
        field \in DOMAIN chunker_call.chunks[i].metadata

\* C12 as stated: the three enrichment calls are isolated from each other;
\* when the keyword extraction raises, the title and the questions are
\* still populated from the other two calls.
C12_EnrichmentIsolated ==
    ( /\ Returned
      /\ chunker_call.failed = "keywords"
      /\ chunker_call.chunks # <<>> )
    => /\ Populated("document_title")
       /\ Populated("questions")

\* The metadata field an enrichment step writes.
FieldOf(step) ==
    CASE step = "llm" -> "document_title"
      [] step = "title" -> "document_title"
      [] step = "keywords" -> "excerpt_keywords"
      [] step = "questions" -> "questions"

InvalidRequest(req) ==
    \/ req.entry = "route_chunk_text" /\ (IsBlank(req.text) \/ req.strategy = None)
    \/ req.chunk_overlap >= req.chunk_size

\* C14 as stated: a request with blank text, an unknown strategy name or
\* chunk_overlap >= chunk_size gets a client error at the request boundary
\* and never reaches the chunker, so that no splitter is built for a
\* request with overlap >= size.
C14_RejectedAtBoundary ==
    ( chunker_call.pc # "rest" /\ FromRoute(chunker_call) ) =>
      /\ InvalidRequest(chunker_call.req) =>
           /\ chunker_call.pc = "responded"
           /\ chunker_call.response.code \in 400..499
      /\ chunker_call.splitter # NoSplitter =>
           chunker_call.req.chunk_overlap < chunker_call.req.chunk_size

\* The splitter of the call in progress has been built.
SplitterBuilt == chunker_call.pc # "rest" /\ chunker_call.splitter # NoSplitter

\* C17: for strategy hierarchical the splitter gets the chunk sizes
\* small = max(100, chunk_size // 4), medium = max(200, chunk_size // 2),
\* large = chunk_size and the requested chunk_overlap for all its levels;
\* for chunk_size = 400 the sizes are exactly 100, 200, 400.
C17_HierarchicalSizes ==
    ( SplitterBuilt /\ chunker_call.req.strategy = HIERARCHICAL ) =>
      LET splitter == chunker_call.splitter
          chunk_size == chunker_call.req.chunk_size
          quarter == chunk_size \div 4
          half == chunk_size \div 2
      IN  /\ splitter.class = "HierarchicalNodeParser"
          /\ Len(splitter.chunk_sizes) = 3
          /\ splitter.chunk_sizes[1] = (IF quarter < 100 THEN 100 ELSE quarter)
          /\ splitter.chunk_sizes[2] = (IF half < 200 THEN 200 ELSE half)
          /\ splitter.chunk_sizes[3] = chunk_size
          /\ splitter.chunk_overlap = chunker_call.req.chunk_overlap
          /\ chunk_size = 400 => splitter.chunk_sizes = <<100, 200, 400>>
          /\ chunk_size = 1000 => splitter.chunk_sizes = <<250, 500, 1000>>

\* A hierarchical splitter built for chunk_size = 400.
C17_Witness ==
    /\ SplitterBuilt
    /\ chunker_call.splitter.class = "HierarchicalNodeParser"
    /\ chunker_call.req.chunk_size = 400
    /\ chunker_call.splitter.chunk_sizes = <<100, 200, 400>>

KnownSplitterClasses ==
    {"HierarchicalNodeParser", "SentenceSplitter", "TokenTextSplitter",
     "MarkdownNodeParser", "SemanticSplitterNodeParser"}

---------------------------------------------------------------------------
(* DocumentParser.parse_file called with a path *)

\* The names of docling's conversion status that convert can return with
\* raises_on_error=False.
ConversionStatus == {"SUCCESS", "PARTIAL_SUCCESS", "FAILURE"}

FileTypes == {"pdf", "docx", "txt"}

\* parse_file(file_path) with every outcome of the file system.
ParseFileCalls ==
    [exists : BOOLEAN, file_type : FileTypes, total_pages : DocPages]

NewParserCall(call) ==
    [pc |-> "convert",
     call |-> call,
     \* what the primary engine did
     status |-> None,
     document |-> FALSE,
     primary_raised |-> None,
     \* the secondary engine
     in_try |-> FALSE,
     secondary_calls |-> 0,
     secondary_raised |-> 0,
     \* the result
     extraction_method |-> "docling",
     page_count |-> <<>>,
     raised |-> None,
     result |-> None]

ParserInit ==
    /\ ParseAtRest
    /\ chunker_call = AtRest
    /\ title_call = AtRest
    /\ upload_call = AtRest
    /\ parser_call = AtRest
    /\ cleanup_call = AtRest
    /\ embedder = AtRest
    /\ extractors = AtRest

\* file_path.exists(), or FileNotFoundError
ParseFileCall(call) ==
    /\ parser_call.pc = "rest"
    /\ parser_call' =
         IF ~call.exists
         THEN [NewParserCall(call) EXCEPT !.pc = "raised",
                                          !.raised = "FileNotFoundError"]
         ELSE NewParserCall(call)

\* SUCCESS whatever the document is.
DoclingSucceeded_status_only(status, document) == status = "SUCCESS"

\* result.status.name == "SUCCESS" and result.document
DoclingSucceeded(status, document) == status = "SUCCESS" /\ document

\* self.converter.convert(...) and the test of its result
PrimaryConvert ==
    /\ parser_call.pc = "convert"
    /\ \E raises \in BOOLEAN, status \in ConversionStatus, document \in BOOLEAN :
         parser_call' =
           IF raises
           THEN [parser_call EXCEPT !.primary_raised = "convert",
                                    !.pc = "fallback"]
           ELSE IF DoclingSucceeded(status, document)
           THEN [parser_call EXCEPT !.status = status, !.document = document,
                                    !.pc = "export"]
           ELSE [parser_call EXCEPT !.status = status, !.document = document,
                                    !.in_try = TRUE,
                                    !.pc = "fallback"]

\* doc.export_to_text(), doc.export_to_markdown() and the _extract_ helpers,
\* which catch their own exceptions
PrimaryExport ==
    /\ parser_call.pc = "export"
    /\ \E raises \in BOOLEAN :
         parser_call' =
           IF raises
           THEN [parser_call EXCEPT !.primary_raised = "export",
                                    !.pc = "fallback"]
           ELSE [parser_call EXCEPT
                   !.extraction_method = "docling",
                   !.page_count = PageCount(ConvertedPages(max_pdf_pages > 0,
                                                           parser_call.call.total_pages)),
                   !.pc = "build"]

\* self._parse_with_pymupdf(file_path): in the else branch of the try block,
\* where its exception is caught and it is called again, or in the except
\* clause, where its exception leaves parse_file.
SecondaryParse ==
    /\ parser_call.pc = "fallback"
    /\ \E raises \in BOOLEAN :
         LET called == [parser_call EXCEPT !.secondary_calls = @ + 1]
         IN  parser_call' =
               IF ~raises
               THEN [called EXCEPT
                       !.in_try = FALSE,
                       !.extraction_method = "pymupdf",
                       !.page_count = <<FallbackPages(parser_call.call.total_pages)>>,
                       !.pc = "build"]
               ELSE IF parser_call.in_try
               THEN [called EXCEPT !.in_try = FALSE,
                                   !.secondary_raised = @ + 1]
               ELSE [called EXCEPT !.secondary_raised = @ + 1,
                                   !.raised = "secondary engine",
                                   !.pc = "raised"]

\* DocumentMetadata(...), ParsedDocument(...) and the return
BuildParsedDocument ==
    /\ parser_call.pc = "build"
    /\ parser_call' =
         [parser_call EXCEPT
            !.pc = "returned",
            !.result = [document_id |-> "doc-1",
                        metadata |-> [file_type |-> parser_call.call.file_type,
                                      page_count |-> parser_call.page_count,
                                      extraction_method |-> parser_call.extraction_method]]]

ParserNext ==
    \/ \E call \in ParseFileCalls : ParseFileCall(call)
         /\ UNCHANGED <<vars, chunker_vars, title_vars, upload_vars, cleanup_vars, embedder_vars, extractor_vars>>
    \/ PrimaryConvert /\ UNCHANGED <<vars, chunker_vars, title_vars, upload_vars, cleanup_vars, embedder_vars, extractor_vars>>
    \/ PrimaryExport /\ UNCHANGED <<vars, chunker_vars, title_vars, upload_vars, cleanup_vars, embedder_vars, extractor_vars>>
    \/ SecondaryParse /\ UNCHANGED <<vars, chunker_vars, title_vars, upload_vars, cleanup_vars, embedder_vars, extractor_vars>>
    \/ BuildParsedDocument /\ UNCHANGED <<vars, chunker_vars, title_vars, upload_vars, cleanup_vars, embedder_vars, extractor_vars>>

ParserSpec ==
    ParserInit
    /\ [][ParserNext]_<<vars, chunker_vars, title_vars, upload_vars, parser_vars, cleanup_vars, embedder_vars, extractor_vars>>

\* The primary engine returned SUCCESS with a document and the export from
\* it raised nothing.
PrimarySucceeded ==
    /\ parser_call.status = "SUCCESS"
    /\ parser_call.document
    /\ parser_call.primary_raised = None

\* C15 as stated: parse_file reports "docling" exactly when the primary
\* engine returned SUCCESS with a document and exporting raised nothing,
\* and "pymupdf" in every other case; an exception reaches the caller only
\* when the secondary engine fails too.
C15_FallbackAsStated ==
    /\ parser_call.pc = "returned" =>
         parser_call.result.metadata.extraction_method =
            (IF PrimarySucceeded THEN "docling" ELSE "pymupdf")
    /\ parser_call.pc = "raised" =>
         /\ ~PrimarySucceeded
         /\ parser_call.secondary_raised > 0

\* C15, amended: the statement holds for a file that exists; for a missing
\* file parse_file raises FileNotFoundError before either engine is tried.
\* When the primary engine returned without SUCCESS or without a document,
\* the exception reaches the caller after the secondary engine failed twice.
C15_Fallback ==
    /\ parser_call.pc = "returned" =>
         /\ parser_call.call.exists
         /\ parser_call.result.metadata.extraction_method =
              (IF PrimarySucceeded THEN "docling" ELSE "pymupdf")
         /\ PrimarySucceeded <=> parser_call.secondary_calls = 0
    /\ parser_call.pc = "raised" =>
         IF parser_call.call.exists
         THEN /\ ~PrimarySucceeded
              /\ parser_call.raised = "secondary engine"
              /\ parser_call.secondary_raised =
                   (IF parser_call.primary_raised = None THEN 2 ELSE 1)
              /\ parser_call.secondary_calls = parser_call.secondary_raised
         ELSE /\ parser_call.raised = "FileNotFoundError"
              /\ parser_call.status = None
              /\ parser_call.primary_raised = None
              /\ parser_call.secondary_calls = 0

\* parse_file returned a "pymupdf" document after the primary engine had
\* returned SUCCESS without a document and the first call of the secondary
\* engine had raised.
C15_Witness ==
    /\ parser_call.pc = "returned"
    /\ parser_call.status = "SUCCESS"
    /\ ~parser_call.document
    /\ parser_call.secondary_raised = 1
    /\ parser_call.result.metadata.extraction_method = "pymupdf"

---------------------------------------------------------------------------
(* routes/documents.py upload_document, with the vector store and the
   document registry it writes to *)

\* parser.get_supported_formats()
SupportedFormats == {"pdf", "docx", "doc", "pptx", "html", "md", "txt"}

\* Uploads: the file (name, extension, size within the limit), the form
\* fields that decide what is stored, and whether Redis answers the ping of
\* DocumentRegistry() when the dependencies of the request are built.
UploadRequests ==
    [filename : {"", "a.pdf", "a.exe"},
     size_ok : BOOLEAN,
     store_in_vector_db : BOOLEAN,
     extract_metadata : BOOLEAN,
     collection_name : {None, "papers"},
     registry_connects : BOOLEAN]

\* Path(file.filename).suffix.lower().lstrip(".")
Extension(filename) ==
    CASE filename = "a.pdf" -> "pdf"
      [] filename = "a.exe" -> "exe"
      [] OTHER -> ""

NewUpload(request) ==
    [pc |-> "parse",
     req |-> request,
     document_id |-> None,
     total_chunks |-> 0,
     vector_db_stored |-> FALSE,
     \* the collaborators
     store_written |-> FALSE,
     store_failed |-> FALSE,
     registry_written |-> FALSE,
     registry_failed |-> FALSE,
     register_returned |-> None,
     response |-> NoResponse]

UploadResponded(upload, code, body) ==
    [upload EXCEPT !.pc = "responded", !.response = [code |-> code, body |-> body]]

UploadInit ==
    /\ ParseAtRest
    /\ chunker_call = AtRest
    /\ title_call = AtRest
    /\ parser_call = AtRest
    /\ cleanup_call = AtRest
    /\ embedder = AtRest
    /\ extractors = AtRest
    /\ upload_call = AtRest

\* The dependencies (get_registry() raises when the ping fails, which the
\* framework answers with 500) and the checks before the try block.
UploadRequest(request) ==
    /\ upload_call.pc = "rest"
    /\ LET upload == NewUpload(request)
       IN  upload_call' =
             IF ~request.registry_connects
             THEN UploadResponded([upload EXCEPT !.registry_failed = TRUE], 500,
                                  [detail |-> "Internal Server Error"])
             ELSE IF request.filename = ""
             THEN UploadResponded(upload, 400, [detail |-> "No filename provided"])
             ELSE IF Extension(request.filename) \notin SupportedFormats
             THEN UploadResponded(upload, 400, [detail |-> "Unsupported file type"])
             ELSE IF ~request.size_ok
             THEN UploadResponded(upload, 400, [detail |-> "File too large"])
             ELSE upload

\* except Exception as e: raise HTTPException(status_code=500, detail=str(e))
UploadFailed(upload, error) == UploadResponded(upload, 500, [detail |-> error])

\* Step 1: parser.parse_bytes(...)
UploadParse ==
    /\ upload_call.pc = "parse"
    /\ \E parses \in BOOLEAN :
         upload_call' =
           IF parses
           THEN [upload_call EXCEPT !.pc = "chunk", !.document_id = DocumentId]
           ELSE UploadFailed(upload_call, "parse error")

\* Step 2: chunker.chunk_document(...), and the branch on store_in_vector_db
UploadChunk ==
    /\ upload_call.pc = "chunk"
    /\ \E chunks \in BOOLEAN, total \in 0..(MaxNodes + MaxTables) :
         upload_call' =
           IF chunks
           THEN [upload_call EXCEPT
                   !.total_chunks = total,
                   !.pc = IF upload_call.req.store_in_vector_db
                          THEN "store" ELSE "respond"]
           ELSE UploadFailed(upload_call, "chunk error")

\* Step 3: vector_store.store_chunks(chunked_doc, collection_name), which
\* raises when the vector store cannot be reached
UploadStore ==
    /\ upload_call.pc = "store"
    /\ \E stores \in BOOLEAN :
         upload_call' =
           IF stores
           THEN [upload_call EXCEPT !.store_written = TRUE,
                                    !.vector_db_stored = TRUE,
                                    !.pc = "register"]
           ELSE UploadFailed([upload_call EXCEPT !.store_failed = TRUE],
                             "vector store error")

\* DocumentRegistry.register_document: True after pipe.execute(), False
\* after any exception; upload_document does not look at the value.
register_document(upload, executes) ==
    IF executes
    THEN [upload EXCEPT !.registry_written = TRUE, !.register_returned = TRUE,
                        !.pc = "respond"]
    ELSE [upload EXCEPT !.registry_failed = TRUE, !.register_returned = FALSE,
                        !.pc = "respond"]

\* registry.register_document(document_id=..., metadata=reg_metadata)
UploadRegister ==
    /\ upload_call.pc = "register"
    /\ \E executes \in BOOLEAN :
         upload_call' = register_document(upload_call, executes)

\* return ProcessingResponse(success=True, ...)
UploadRespond ==
    /\ upload_call.pc = "respond"
    /\ upload_call' =
         UploadResponded(upload_call, 200,
                         [success |-> TRUE,
                          document_id |-> upload_call.document_id,
                          chunk_count |-> upload_call.total_chunks,
                          vector_db_stored |-> upload_call.vector_db_stored])

UploadNext ==
    \/ \E request \in UploadRequests : UploadRequest(request)
         /\ UNCHANGED <<vars, chunker_vars, title_vars, parser_vars, cleanup_vars, embedder_vars, extractor_vars>>
    \/ UploadParse /\ UNCHANGED <<vars, chunker_vars, title_vars, parser_vars, cleanup_vars, embedder_vars, extractor_vars>>
    \/ UploadChunk /\ UNCHANGED <<vars, chunker_vars, title_vars, parser_vars, cleanup_vars, embedder_vars, extractor_vars>>
    \/ UploadStore /\ UNCHANGED <<vars, chunker_vars, title_vars, parser_vars, cleanup_vars, embedder_vars, extractor_vars>>
    \/ UploadRegister /\ UNCHANGED <<vars, chunker_vars, title_vars, parser_vars, cleanup_vars, embedder_vars, extractor_vars>>
    \/ UploadRespond /\ UNCHANGED <<vars, chunker_vars, title_vars, parser_vars, cleanup_vars, embedder_vars, extractor_vars>>

UploadSpec ==
    UploadInit
    /\ [][UploadNext]_<<vars, chunker_vars, title_vars, upload_vars, parser_vars, cleanup_vars, embedder_vars, extractor_vars>>

\* C16 as stated: when the vector store or the document registry is
\* unavailable during an upload that asks for storage, the caller gets a
\* server error; an upload never reports success while the registry write
\* for that document failed.
C16_UnavailableIsServerError ==
    ( /\ upload_call.pc = "responded"
      /\ upload_call.req.store_in_vector_db
      /\ (upload_call.store_failed \/ upload_call.registry_failed) )
    => upload_call.response.code = 500

---------------------------------------------------------------------------
(* The shared page limit under concurrent requests *)

\* No parse request is in flight.
Quiescent == \A j \in DOMAIN jobs : ~InFlightParse(jobs[j])

\* C28 as stated: once every in-flight parse request has finished, the
\* shared parser.settings.max_pdf_pages equals the configured default
\* again, under any interleaving of background jobs and sync requests.
C28_LimitRestoredWhenQuiescent ==
    Quiescent => max_pdf_pages = configured

\* C30 as stated: for every chunk_size the request surface accepts
\* (50 to 4096) the three hierarchical chunk sizes are nested,
\* small <= medium <= large.
C30_HierarchyNested ==
    ( /\ SplitterBuilt
      /\ chunker_call.splitter.class = "HierarchicalNodeParser"
      /\ chunker_call.req.chunk_size \in 50..4096 )
    => LET sizes == chunker_call.splitter.chunk_sizes
       IN  sizes[1] <= sizes[2] /\ sizes[2] <= sizes[3]

---------------------------------------------------------------------------
(* DocumentChunker: the extractors it keeps between calls *)

MaxExtractorCalls == 3

\* num_questions and keywords of the callers: the defaults 3 and 5, and
\* other counts.
QuestionCounts == {1, 3, 5}
KeywordCounts == {3, 5, 10}

\* None where an extractor is expected
NoExtractor == [class |-> "NoneType", count |-> 0]

NoCall == [kind |-> None, count |-> 0, returned |-> NoExtractor, raised |-> FALSE]

\* DocumentChunker.__init__
NewChunker ==
    [_questions_extractor |-> NoExtractor,
     _keyword_extractor |-> NoExtractor,
     calls |-> 0,
     call |-> NoCall]

ExtractorInit ==
    /\ ParseAtRest
    /\ chunker_call = AtRest
    /\ title_call = AtRest
    /\ upload_call = AtRest
    /\ parser_call = AtRest
    /\ cleanup_call = AtRest
    /\ embedder = AtRest
    /\ extractors = NewChunker

\* QuestionsAnsweredExtractor(questions=num_questions, llm=self.llm, ...)
QuestionsAnsweredExtractor(num_questions) ==
    [class |-> "QuestionsAnsweredExtractor", count |-> num_questions]

\* KeywordExtractor(keywords=keywords, llm=self.llm, ...)
KeywordExtractor(keywords) ==
    [class |-> "KeywordExtractor", count |-> keywords]

\* _get_questions_extractor(num_questions): a new extractor when there is
\* none or num_questions != 3, for which self.llm may raise; else the kept one
_get_questions_extractor(num_questions) ==
    /\ extractors.calls < MaxExtractorCalls
    /\ \E llm_raises \in BOOLEAN :
         LET creates == extractors._questions_extractor = NoExtractor \/ num_questions # 3
             called == [extractors EXCEPT !.calls = @ + 1]
         IN  extractors' =
               IF creates /\ llm_raises
               THEN [called EXCEPT !.call = [kind |-> "questions", count |-> num_questions,
                                             returned |-> NoExtractor, raised |-> TRUE]]
               ELSE IF creates
               THEN [called EXCEPT
                       !._questions_extractor = QuestionsAnsweredExtractor(num_questions),
                       !.call = [kind |-> "questions", count |-> num_questions,
                                 returned |-> QuestionsAnsweredExtractor(num_questions),
                                 raised |-> FALSE]]
               ELSE [called EXCEPT
                       !.call = [kind |-> "questions", count |-> num_questions,
                                 returned |-> extractors._questions_extractor,
                                 raised |-> FALSE]]

\* _get_keyword_extractor(keywords): a new extractor only when there is none
_get_keyword_extractor(keywords) ==
    /\ extractors.calls < MaxExtractorCalls
    /\ \E llm_raises \in BOOLEAN :
         LET creates == extractors._keyword_extractor = NoExtractor
             called == [extractors EXCEPT !.calls = @ + 1]
         IN  extractors' =
               IF creates /\ llm_raises
               THEN [called EXCEPT !.call = [kind |-> "keywords", count |-> keywords,
                                             returned |-> NoExtractor, raised |-> TRUE]]
               ELSE IF creates
               THEN [called EXCEPT
                       !._keyword_extractor = KeywordExtractor(keywords),
                       !.call = [kind |-> "keywords", count |-> keywords,
                                 returned |-> KeywordExtractor(keywords),
                                 raised |-> FALSE]]
               ELSE [called EXCEPT
                       !.call = [kind |-> "keywords", count |-> keywords,
                                 returned |-> extractors._keyword_extractor,
                                 raised |-> FALSE]]

ExtractorNext ==
    \/ \E n \in QuestionCounts : _get_questions_extractor(n)
         /\ UNCHANGED <<vars, chunker_vars, title_vars, upload_vars, parser_vars, cleanup_vars, embedder_vars>>
    \/ \E k \in KeywordCounts : _get_keyword_extractor(k)
         /\ UNCHANGED <<vars, chunker_vars, title_vars, upload_vars, parser_vars, cleanup_vars, embedder_vars>>

ExtractorSpec ==
    ExtractorInit
    /\ [][ExtractorNext]_<<vars, chunker_vars, title_vars, upload_vars, parser_vars, cleanup_vars, embedder_vars, extractor_vars>>

\* C29 as stated: for any sequence of calls on one DocumentChunker the
\* extractor handed out is configured for the count of the current call:
\* n questions for _get_questions_extractor(n), k keywords for
\* _get_keyword_extractor(k).
C29_ExtractorMatchesCall ==
    LET call == extractors.call
    IN  /\ ( call.kind = "questions" /\ ~call.raised ) =>
             /\ call.returned.class = "QuestionsAnsweredExtractor"
             /\ call.returned.count = call.count
        /\ ( call.kind = "keywords" /\ ~call.raised ) =>
             /\ call.returned.class = "KeywordExtractor"
             /\ call.returned.count = call.count

---------------------------------------------------------------------------
(* The clean-up of extracted keywords and questions, and its consumers *)

MaxRawPieces == 3

\* "KEYWORDS:", a label in another letter case
LabelKeywordsUpper == <<"K","E","Y","W","O","R","D","S",":">>

\* What the keyword extractor may write into excerpt_keywords.
KeywordPieces ==
    { LabelKeywords, LabelKeywordsLower, LabelKeywordsUpper,
      <<"a","l","p","h","a">>, <<"b","e","t","a">>,
      <<"t","r","u","e">>, <<"n","u","l","l">>, <<"1","2">>, <<"[","]">>,
      <<" ">>, <<",">> }

RawKeywordValues == Texts(KeywordPieces, MaxRawPieces) \cup {RawKeywords}

WhatIsX == <<"W","h","a","t"," ","i","s"," ","X","?">>
WhatIsY == <<"W","h","a","t"," ","i","s"," ","Y","?">>

\* What the questions extractor may write into the questions key.
QuestionPieces ==
    { <<"1","."," ">>, <<"2","."," ">>, <<"6","."," ">>, <<"1","0","."," ">>,
      WhatIsX, WhatIsY, <<Newline>> }

RawQuestionValues == Texts(QuestionPieces, MaxRawPieces) \cup {RawQuestions}

\* keywords_list = [k.strip() for k in cleaned_str.split(",") if k.strip()]
KeywordsList(raw_val) ==
    NonEmpty(StripAll(Split(
        Strip(Remove(Remove(raw_val, LabelKeywords), LabelKeywordsLower)), ",")))

\* json.loads(s) followed by str() of a value that is no list, for the
\* JSON documents the extractor output above can spell: the three literals,
\* an integer without a leading zero, and the empty array.  Any other string
\* makes json.loads raise.
IsInteger(s) ==
    /\ s # <<>>
    /\ \A i \in 1..Len(s) : s[i] \in Digits
    /\ (Len(s) > 1 => s[1] # "0")

JsonLoads(s) ==
    CASE s = <<"t","r","u","e">> ->
            [raised |-> FALSE, is_list |-> FALSE, str |-> <<"T","r","u","e">>]
      [] s = <<"f","a","l","s","e">> ->
            [raised |-> FALSE, is_list |-> FALSE, str |-> <<"F","a","l","s","e">>]
      [] s = <<"n","u","l","l">> ->
            [raised |-> FALSE, is_list |-> FALSE, str |-> <<"N","o","n","e">>]
      [] s = <<"[","]">> ->
            [raised |-> FALSE, is_list |-> TRUE, str |-> <<>>]
      [] IsInteger(s) ->
            [raised |-> FALSE, is_list |-> FALSE, str |-> s]
      [] OTHER ->
            [raised |-> TRUE, is_list |-> FALSE, str |-> <<>>]

\* [k.strip() for k in str(x).split(",") if k.strip()]
CommaSplit(s) == NonEmpty(StripAll(Split(s, ",")))

\* routes/chunk.py: the keywords of the response, from the stored string
RouteKeywords(keywords_raw) ==
    IF keywords_raw = <<>> THEN <<>>
    ELSE LET parsed == JsonLoads(Strip(keywords_raw))
         IN  IF parsed.raised THEN CommaSplit(keywords_raw)
             ELSE IF parsed.is_list THEN <<>>
             ELSE CommaSplit(parsed.str)

\* str.split(", ")
RECURSIVE SplitCommaSpace(_)
SplitCommaSpace(s) ==
    LET at == {i \in 1..(Len(s) - 1) : s[i] = "," /\ s[i + 1] = " "}
    IN  IF at = {} THEN <<s>>
        ELSE <<SubSeq(s, 1, SetMin(at) - 1)>> \o SplitCommaSpace(From(s, SetMin(at) + 1))

\* xs[:n]
UpTo(xs, n) == SubSeq(xs, 1, Min(n, Len(xs)))

\* [str(q).strip() for q in questions if str(q).strip()]
RouteQuestions(questions) == NonEmpty(StripAll(questions))

NewCleanup(kind, raw_val, num) ==
    [pc |-> "cleaned", kind |-> kind, raw_val |-> raw_val, num |-> num,
     keywords_list |-> <<>>, excerpt_keywords |-> <<>>, questions |-> <<>>,
     consumer |-> "none", response |-> <<>>]

CleanupInit ==
    /\ ParseAtRest
    /\ chunker_call = AtRest
    /\ title_call = AtRest
    /\ upload_call = AtRest
    /\ parser_call = AtRest
    /\ cleanup_call = AtRest
    /\ embedder = AtRest
    /\ extractors = AtRest

\* _extract_metadata: the clean-up of one node's excerpt_keywords
ExtractMetadataKeywords(raw_val) ==
    /\ cleanup_call.pc = "rest"
    /\ cleanup_call' =
         [NewCleanup("keywords", raw_val, 0) EXCEPT
            !.keywords_list = KeywordsList(raw_val),
            !.excerpt_keywords = CleanKeywords(raw_val)]

\* _extract_metadata: the clean-up of one node's questions
ExtractMetadataQuestions(raw_val, num_questions) ==
    /\ cleanup_call.pc = "rest"
    /\ cleanup_call' =
         [NewCleanup("questions", raw_val, num_questions) EXCEPT
            !.questions = CleanQuestions(raw_val)]

\* chunk_text of routes/chunk.py reads the keywords of a chunk
ChunkTextKeywords ==
    /\ cleanup_call.pc = "cleaned"
    /\ cleanup_call.kind = "keywords"
    /\ cleanup_call' =
         [cleanup_call EXCEPT
            !.pc = "consumed",
            !.consumer = "chunk_text",
            !.response = RouteKeywords(cleanup_call.excerpt_keywords)]

\* extract_keywords_only of routes/metadata.py reads excerpt_keywords
ExtractKeywordsOnly(num_keywords) ==
    /\ cleanup_call.pc = "cleaned"
    /\ cleanup_call.kind = "keywords"
    /\ cleanup_call' =
         [cleanup_call EXCEPT
            !.pc = "consumed",
            !.consumer = "extract_keywords_only",
            !.num = num_keywords,
            !.response =
                IF cleanup_call.excerpt_keywords = <<>> THEN <<>>
                ELSE UpTo(SplitCommaSpace(cleanup_call.excerpt_keywords), num_keywords)]

\* chunk_text of routes/chunk.py reads the questions of a chunk
ChunkTextQuestions ==
    /\ cleanup_call.pc = "cleaned"
    /\ cleanup_call.kind = "questions"
    /\ cleanup_call' =
         [cleanup_call EXCEPT
            !.pc = "consumed",
            !.consumer = "chunk_text",
            !.response = RouteQuestions(cleanup_call.questions)]

\* the response is sent
CleanupReturn ==
    /\ cleanup_call.pc = "consumed"
    /\ cleanup_call' = AtRest

CleanupNext ==
    \/ \E raw_val \in RawKeywordValues : ExtractMetadataKeywords(raw_val)
         /\ UNCHANGED <<vars, chunker_vars, title_vars, upload_vars, parser_vars, embedder_vars, extractor_vars>>
    \/ \E raw_val \in RawQuestionValues, n \in QuestionCounts :
            ExtractMetadataQuestions(raw_val, n)
         /\ UNCHANGED <<vars, chunker_vars, title_vars, upload_vars, parser_vars, embedder_vars, extractor_vars>>
    \/ ChunkTextKeywords
         /\ UNCHANGED <<vars, chunker_vars, title_vars, upload_vars, parser_vars, embedder_vars, extractor_vars>>
    \/ \E k \in KeywordCounts : ExtractKeywordsOnly(k)
         /\ UNCHANGED <<vars, chunker_vars, title_vars, upload_vars, parser_vars, embedder_vars, extractor_vars>>
    \/ ChunkTextQuestions
         /\ UNCHANGED <<vars, chunker_vars, title_vars, upload_vars, parser_vars, embedder_vars, extractor_vars>>
    \/ CleanupReturn
         /\ UNCHANGED <<vars, chunker_vars, title_vars, upload_vars, parser_vars, embedder_vars, extractor_vars>>

CleanupSpec ==
    CleanupInit
    /\ [][CleanupNext]_<<vars, chunker_vars, title_vars, upload_vars, parser_vars, cleanup_vars, embedder_vars, extractor_vars>>

KeywordsCleaned == cleanup_call.pc # "rest" /\ cleanup_call.kind = "keywords"
QuestionsCleaned == cleanup_call.pc # "rest" /\ cleanup_call.kind = "questions"

\* a keyword that still starts with the label, in any of its letter cases
CarriesLabel(k) ==
    \E label \in {LabelKeywords, LabelKeywordsLower, LabelKeywordsUpper} :
        StartsWith(k, label)

\* C21 as stated: keyword cleaning strips a leading "Keywords:" label
\* whatever its letter case, splits on commas, trims every fragment and drops
\* the empty ones: no cleaned keyword is empty, has surrounding whitespace or
\* still carries the label, and 'Keywords: alpha, beta , , gamma' yields
\* alpha, beta, gamma.
C21_KeywordsCleaned ==
    KeywordsCleaned =>
        LET keywords_list == cleanup_call.keywords_list
        IN  /\ \A i \in 1..Len(keywords_list) :
                 /\ keywords_list[i] # <<>>
                 /\ Strip(keywords_list[i]) = keywords_list[i]
                 /\ ~CarriesLabel(keywords_list[i])
            /\ cleanup_call.raw_val = RawKeywords =>
                 /\ keywords_list = << <<"a","l","p","h","a">>, <<"b","e","t","a">>,
                                       <<"g","a","m","m","a">> >>
                 /\ cleanup_call.excerpt_keywords =
                        <<"a","l","p","h","a",","," ","b","e","t","a",","," ",
                          "g","a","m","m","a">>

HasMarker(q) == StripMarker(Strip(q)) # Strip(q)

NonEmptyLines(raw_val) ==
    SelectSeq(Split(raw_val, Newline), LAMBDA q : Strip(q) # <<>>)

\* every non-empty line of raw_val begins with a numeric list marker
AllMarked(raw_val) ==
    /\ NonEmptyLines(raw_val) # <<>>
    /\ \A i \in 1..Len(NonEmptyLines(raw_val)) : HasMarker(NonEmptyLines(raw_val)[i])

\* C23 as stated: when every non-empty line of the raw questions string
\* begins with a numeric list marker, questions cleaning returns all of those
\* lines in their original order with the marker stripped from each, whatever
\* the number of lines and the marker values.
C23_MarkersStripped ==
    ( QuestionsCleaned /\ AllMarked(cleanup_call.raw_val) ) =>
        LET lines == NonEmptyLines(cleanup_call.raw_val)
        IN  cleanup_call.questions =
                [i \in 1..Len(lines) |-> Strip(StripMarker(Strip(lines[i])))]

\* C24 as stated: after questions cleaning the questions list of a node holds
\* at most num_questions entries, in the node's metadata and in the response
\* of the chunk route.
C24_QuestionsCapped ==
    QuestionsCleaned =>
        /\ Len(cleanup_call.questions) <= cleanup_call.num
        /\ cleanup_call.pc = "consumed" => Len(cleanup_call.response) <= cleanup_call.num

---------------------------------------------------------------------------
(* EmbeddingCache and EmbedderService *)

MaxMemoryCacheSize == 2
MaxBatch == 3

DefaultModel == "all-MiniLM-L6-v2"
EmbeddingModelNames == {DefaultModel, "all-mpnet-base-v2"}

\* the model argument of a call: a name, or None for the default model
ModelArguments == EmbeddingModelNames \cup {None}

EmbedTexts == {"hello", "query:hello", " "}
QueryTexts == {"hello", " "}
TextBatches == UNION {[1..n -> EmbedTexts] : n \in 0..MaxBatch}

\* The vector a model computes for a text (model.encode is a function of
\* both).
Embedding(model, text) == [model |-> model, text |-> text]
NoEmbedding == [model |-> "none", text |-> "none"]

\* content = f"{model}:{text}"; the sha256 digest is taken as injective
_generate_cache_key(text, model) == model \o ":" \o text

\* model or self.default_model
ModelName(model) == IF model = None THEN DefaultModel ELSE model

Miss == [hit |-> FALSE, embedding |-> NoEmbedding]

\* cache_key in self._memory_cache / self._memory_cache[cache_key]
MemoryGet(memory_cache, cache_key) ==
    LET at == {i \in 1..Len(memory_cache) : memory_cache[i].key = cache_key}
    IN  IF at = {} THEN Miss
        ELSE [hit |-> TRUE, embedding |-> memory_cache[CHOOSE i \in at : TRUE].embedding]

\* self.redis.get(cache_key)
RedisGet(redis, cache_key) ==
    LET at == {r \in redis : r.key = cache_key}
    IN  IF at = {} THEN Miss
        ELSE [hit |-> TRUE, embedding |-> (CHOOSE r \in at : TRUE).embedding]

\* EmbeddingCache.get: Redis first, then the memory cache
cache_get(e, text, model) ==
    LET cache_key == _generate_cache_key(text, model)
    IN  IF e.enabled /\ RedisGet(e.redis, cache_key).hit
        THEN RedisGet(e.redis, cache_key)
        ELSE MemoryGet(e.memory_cache, cache_key)

\* The memory part of EmbeddingCache.set: when the dict is full its first
\* key is deleted, then the key is assigned (a key that is present keeps its
\* place in the dict's order).
MemorySet(memory_cache, cache_key, embedding) ==
    LET room == IF Len(memory_cache) >= MaxMemoryCacheSize
                THEN Tail(memory_cache) ELSE memory_cache
        at == {i \in 1..Len(room) : room[i].key = cache_key}
    IN  IF at = {}
        THEN Append(room, [key |-> cache_key, embedding |-> embedding])
        ELSE [room EXCEPT ![CHOOSE i \in at : TRUE].embedding = embedding]

\* self.redis.setex(cache_key, self.ttl, embedding_json)
RedisSetex(redis, cache_key, embedding) ==
    {r \in redis : r.key # cache_key} \cup {[key |-> cache_key, embedding |-> embedding]}

\* EmbeddingCache.set
cache_set(e, text, model, embedding) ==
    LET cache_key == _generate_cache_key(text, model)
    IN  [e EXCEPT
           !.redis = IF e.enabled THEN RedisSetex(@, cache_key, embedding) ELSE @,
           !.memory_cache = MemorySet(@, cache_key, embedding)]

NoResult ==
    [kind |-> "none", embeddings |-> <<>>, cached |-> FALSE,
     total_embeddings |-> 0, cached_count |-> 0]

ValueError == [NoResult EXCEPT !.kind = "ValueError"]

\* EmbeddingResult(embedding=..., cached=...)
EmbeddingResult(embedding, cached) ==
    [NoResult EXCEPT !.kind = "EmbeddingResult", !.embeddings = <<embedding>>,
                     !.cached = cached, !.total_embeddings = 1,
                     !.cached_count = IF cached THEN 1 ELSE 0]

\* BatchEmbeddingResult(embeddings=..., total_embeddings=..., cached_count=...)
BatchEmbeddingResult(all_embeddings, cached_embeddings) ==
    [NoResult EXCEPT !.kind = "BatchEmbeddingResult", !.embeddings = all_embeddings,
                     !.total_embeddings = Len(all_embeddings),
                     !.cached_count = Cardinality(cached_embeddings)]

\* No call of the service is in progress.
IdleCall ==
    [op |-> "none", stage |-> "idle", texts |-> <<>>, valid_texts |-> <<>>,
     cache_key_text |-> "", model_name |-> "none", next |-> 1,
     cached_embeddings |-> {}, uncached_indices |-> <<>>, new_embeddings |-> <<>>,
     pending |-> {}, result |-> NoResult]

\* EmbedderService(redis_client=..., enable_caching=True)
NewEmbedder(redis_client) ==
    [pc |-> "ready", enabled |-> redis_client, redis |-> {}, memory_cache |-> <<>>,
     call |-> IdleCall]

EmbedderInit ==
    /\ ParseAtRest
    /\ chunker_call = AtRest
    /\ title_call = AtRest
    /\ upload_call = AtRest
    /\ parser_call = AtRest
    /\ cleanup_call = AtRest
    /\ extractors = AtRest
    /\ embedder \in {NewEmbedder(redis_client) : redis_client \in BOOLEAN}

\* EmbeddingCache.set called on the cache itself
CacheSet(text, model) ==
    /\ embedder' = cache_set(embedder, text, model, Embedding(model, text))

\* The TTL of a Redis entry runs out.
RedisExpire ==
    /\ embedder.enabled
    /\ \E r \in embedder.redis :
         embedder' = [embedder EXCEPT !.redis = @ \ {r}]

\* embed_text and embed_query up to the model's encode: validation and the
\* cache lookup under cache_key_text
Lookup(op, text, cache_key_text, model) ==
    /\ embedder.call.stage = "idle"
    /\ LET model_name == ModelName(model)
           found == cache_get(embedder, cache_key_text, model_name)
           call == [IdleCall EXCEPT !.op = op, !.texts = <<text>>,
                                    !.cache_key_text = cache_key_text,
                                    !.model_name = model_name]
       IN  embedder' =
             [embedder EXCEPT !.call =
                IF IsBlank(text)
                THEN [call EXCEPT !.stage = "returned", !.result = ValueError]
                ELSE IF found.hit
                THEN [call EXCEPT !.stage = "returned",
                                  !.result = EmbeddingResult(found.embedding, TRUE)]
                ELSE [call EXCEPT !.stage = "generate"]]

\* EmbedderService.embed_text
EmbedText(text, model) == Lookup("embed_text", text, text, model)

\* EmbedderService.embed_query: the cache text is f"query:{query}"
EmbedQuery(query, model) == Lookup("embed_query", query, "query:" \o query, model)

\* embed_text and embed_query from the model's encode on: the vector is
\* generated for the text, cached under cache_key_text and returned.
GenerateOne ==
    /\ embedder.call.stage = "generate"
    /\ embedder.call.op \in {"embed_text", "embed_query"}
    /\ LET call == embedder.call
           embedding == Embedding(call.model_name, call.texts[1])
           stored == cache_set(embedder, call.cache_key_text, call.model_name, embedding)
       IN  embedder' =
             [stored EXCEPT !.call.stage = "returned",
                            !.call.result = EmbeddingResult(embedding, FALSE)]

\* valid_texts = [texts[i] for i in valid_indices]
ValidTexts(texts) == SelectSeq(texts, LAMBDA text : ~IsBlank(text))

\* the cached embedding of position idx
CachedAt(cached_embeddings, idx) ==
    (CHOOSE c \in cached_embeddings : c.idx = idx).embedding

\* all_embeddings filled from new_embeddings in place of uncached_indices
Combine_by_position(call) ==
    [idx \in 1..Len(call.valid_texts) |->
        IF idx <= Len(call.new_embeddings) THEN call.new_embeddings[idx]
        ELSE IF \E c \in call.cached_embeddings : c.idx = idx
        THEN CachedAt(call.cached_embeddings, idx)
        ELSE NoEmbedding]

\* embed_batch: all_embeddings, the cached embeddings at their indices and
\* new_embeddings[i] at uncached_indices[i]
Combine(call) ==
    [idx \in 1..Len(call.valid_texts) |->
        IF \E i \in 1..Len(call.uncached_indices) : call.uncached_indices[i] = idx
        THEN call.new_embeddings[
                CHOOSE i \in 1..Len(call.uncached_indices) : call.uncached_indices[i] = idx]
        ELSE IF \E c \in call.cached_embeddings : c.idx = idx
        THEN CachedAt(call.cached_embeddings, idx)
        ELSE NoEmbedding]

\* the return of embed_batch
ReturnBatch(call) ==
    [call EXCEPT !.stage = "returned",
                 !.result = BatchEmbeddingResult(Combine(call), call.cached_embeddings)]

\* One turn of the loop of EmbeddingCache.get_batch, for position call.next.
GetOne(e, call) ==
    LET found == cache_get(e, call.valid_texts[call.next], call.model_name)
    IN  [call EXCEPT
           !.next = @ + 1,
           !.cached_embeddings =
               IF found.hit THEN @ \cup {[idx |-> call.next, embedding |-> found.embedding]}
               ELSE @,
           !.uncached_indices = IF found.hit THEN @ ELSE Append(@, call.next)]

\* The turns of get_batch from position call.next to position last.
RECURSIVE GetUpTo(_, _, _)
GetUpTo(e, call, last) ==
    IF call.next > last THEN call ELSE GetUpTo(e, GetOne(e, call), last)

\* After get_batch: to the model when a text is not cached, else the return.
AfterGetBatch(call) ==
    IF call.next <= Len(call.valid_texts) THEN call
    ELSE IF call.uncached_indices # <<>> THEN [call EXCEPT !.stage = "generate"]
    ELSE ReturnBatch(call)

\* EmbedderService.embed_batch up to its first suspension: validation,
\* the filter of blank texts, and get_batch (which suspends before every
\* Redis read, and not at all without Redis).
EmbedBatch(texts) ==
    /\ embedder.call.stage = "idle"
    /\ LET call == [IdleCall EXCEPT !.op = "embed_batch", !.texts = texts,
                                    !.valid_texts = ValidTexts(texts),
                                    !.model_name = ModelName(None),
                                    !.stage = "get"]
       IN  embedder' =
             [embedder EXCEPT !.call =
                IF texts = <<>> \/ call.valid_texts = <<>>
                THEN [call EXCEPT !.stage = "returned", !.result = ValueError]
                ELSE IF embedder.enabled THEN call
                ELSE AfterGetBatch(GetUpTo(embedder, call, Len(call.valid_texts)))]

\* get_batch with Redis: the lookup of one text
GetBatchStep ==
    /\ embedder.call.stage = "get"
    /\ embedder' =
         [embedder EXCEPT !.call = AfterGetBatch(GetOne(embedder, embedder.call))]

\* The sets of set_batch taken one after another, in the order of the tasks.
RECURSIVE SetInOrder(_, _, _)
SetInOrder(e, call, i) ==
    IF i > Len(call.uncached_indices) THEN e
    ELSE SetInOrder(
            cache_set(e, call.valid_texts[call.uncached_indices[i]], call.model_name,
                      call.new_embeddings[i]),
            call, i + 1)

\* embed_batch: the uncached texts are encoded, then set_batch gathers one
\* set per text.  Without Redis no set suspends and they run in order; with
\* Redis each suspends on setex and they complete in any order.
GenerateBatch ==
    /\ embedder.call.stage = "generate"
    /\ embedder.call.op = "embed_batch"
    /\ LET call == [embedder.call EXCEPT
                      !.new_embeddings =
                          [i \in 1..Len(embedder.call.uncached_indices) |->
                              Embedding(embedder.call.model_name,
                                        embedder.call.valid_texts[embedder.call.uncached_indices[i]])]]
       IN  embedder' =
             IF embedder.enabled
             THEN [embedder EXCEPT
                     !.call = [call EXCEPT !.stage = "set",
                                           !.pending = 1..Len(call.uncached_indices)]]
             ELSE [SetInOrder(embedder, call, 1) EXCEPT !.call = ReturnBatch(call)]

\* One gathered set of set_batch completes; after the last one embed_batch
\* returns.
SetTask(i) ==
    /\ embedder.call.stage = "set"
    /\ i \in embedder.call.pending
    /\ LET call == embedder.call
           stored == cache_set(embedder, call.valid_texts[call.uncached_indices[i]],
                               call.model_name, call.new_embeddings[i])
           rest == [call EXCEPT !.pending = @ \ {i}]
       IN  embedder' =
             [stored EXCEPT !.call = IF rest.pending = {} THEN ReturnBatch(rest) ELSE rest]

\* The caller has the result (or the ValueError).
EmbedReturn ==
    /\ embedder.call.stage = "returned"
    /\ embedder' = [embedder EXCEPT !.call = IdleCall]

EmbedderNext ==
    \/ \E text \in EmbedTexts \ {" "}, model \in EmbeddingModelNames : CacheSet(text, model)
         /\ UNCHANGED <<vars, chunker_vars, title_vars, upload_vars, parser_vars, cleanup_vars, extractor_vars>>
    \/ RedisExpire
         /\ UNCHANGED <<vars, chunker_vars, title_vars, upload_vars, parser_vars, cleanup_vars, extractor_vars>>
    \/ \E text \in EmbedTexts, model \in ModelArguments : EmbedText(text, model)
         /\ UNCHANGED <<vars, chunker_vars, title_vars, upload_vars, parser_vars, cleanup_vars, extractor_vars>>
    \/ \E query \in QueryTexts, model \in ModelArguments : EmbedQuery(query, model)
         /\ UNCHANGED <<vars, chunker_vars, title_vars, upload_vars, parser_vars, cleanup_vars, extractor_vars>>
    \/ GenerateOne
         /\ UNCHANGED <<vars, chunker_vars, title_vars, upload_vars, parser_vars, cleanup_vars, extractor_vars>>
    \/ \E texts \in TextBatches : EmbedBatch(texts)
         /\ UNCHANGED <<vars, chunker_vars, title_vars, upload_vars, parser_vars, cleanup_vars, extractor_vars>>
    \/ GetBatchStep
         /\ UNCHANGED <<vars, chunker_vars, title_vars, upload_vars, parser_vars, cleanup_vars, extractor_vars>>
    \/ GenerateBatch
         /\ UNCHANGED <<vars, chunker_vars, title_vars, upload_vars, parser_vars, cleanup_vars, extractor_vars>>
    \/ \E i \in 1..MaxBatch : SetTask(i)
         /\ UNCHANGED <<vars, chunker_vars, title_vars, upload_vars, parser_vars, cleanup_vars, extractor_vars>>
    \/ EmbedReturn
         /\ UNCHANGED <<vars, chunker_vars, title_vars, upload_vars, parser_vars, cleanup_vars, extractor_vars>>

EmbedderSpec ==
    EmbedderInit
    /\ [][EmbedderNext]_<<vars, chunker_vars, title_vars, upload_vars, parser_vars, cleanup_vars, embedder_vars, extractor_vars>>

\* embed_text or embed_query has returned an EmbeddingResult
ReturnedOne ==
    /\ embedder.call.stage = "returned"
    /\ embedder.call.result.kind = "EmbeddingResult"

\* embed_batch has returned a BatchEmbeddingResult
ReturnedBatch ==
    /\ embedder.call.stage = "returned"
    /\ embedder.call.result.kind = "BatchEmbeddingResult"

\* C25 as stated: cache entries are keyed by the pair (model id, text), so a
\* lookup returns only a vector stored for exactly that text and that model,
\* and query and document embeddings never share an entry: whatever
\* embed_text or embed_query returns, from the cache or not, is the vector of
\* the requested model for the requested text.
C25_CacheKeyedByModelAndText ==
    ReturnedOne =>
        embedder.call.result.embeddings[1] =
            Embedding(embedder.call.model_name, embedder.call.texts[1])

CacheKeys(memory_cache) == {memory_cache[i].key : i \in 1..Len(memory_cache)}

\* C26 as stated: the memory cache never holds more than
\* _max_memory_cache_size entries and eviction is FIFO: entries leave from the
\* oldest end only, and only to make room for a new key, so no step that
\* sets entries leaves the cache with fewer entries than it had.
C26_FifoEviction ==
    [][ LET before == embedder.memory_cache
            after == embedder'.memory_cache
        IN  /\ Len(after) <= MaxMemoryCacheSize
            /\ Len(after) >= Len(before)
            /\ \A i \in 1..Len(before) :
                 before[i].key \notin CacheKeys(after) =>
                     \A j \in 1..i : before[j].key \notin CacheKeys(after)
      ]_embedder_vars

\* C27: embed_batch returns one embedding per non-blank input text, in input
\* order: the cached vector where the text was a cache hit, the vector
\* generated for the text elsewhere; total_embeddings is the number of
\* non-blank texts and cached_count the number of cache hits.
C27_BatchInInputOrder ==
    ReturnedBatch =>
        LET call == embedder.call
            valid_texts == ValidTexts(call.texts)
            hits == {i \in 1..Len(valid_texts) :
                        \E c \in call.cached_embeddings : c.idx = i}
        IN  /\ Len(call.result.embeddings) = Len(valid_texts)
            /\ \A i \in 1..Len(valid_texts) :
                 call.result.embeddings[i] =
                    IF i \in hits THEN CachedAt(call.cached_embeddings, i)
                    ELSE Embedding(call.model_name, valid_texts[i])
            /\ call.result.total_embeddings = Len(valid_texts)
            /\ call.result.cached_count = Cardinality(hits)

\* A batch with a blank text filtered out has returned with some texts from
\* the cache and a generated one behind a cached one.
C27_Witness ==
    /\ ReturnedBatch
    /\ Len(embedder.call.texts) > Len(embedder.call.result.embeddings)
    /\ embedder.call.result.cached_count >= 1
    /\ embedder.call.result.cached_count < embedder.call.result.total_embeddings
    /\ embedder.call.uncached_indices[1] > 1

====
